---- MODULE Spec2Model ----
(***************************************************************************)
(* A model of rasterio's dataset layer: the window arithmetic and the      *)
(* open/close life cycle with its memoized metadata, as implemented by     *)
(* DatasetBase (_base), RasterReader and RasterUpdater (_io).              *)
(*                                                                         *)
(* Python values are encoded as follows.  None is the empty tuple and a    *)
(* value x that may also be None is the one-element tuple <<x>>.  A list   *)
(* or tuple is a sequence.  A C pointer is a natural number, 0 being NULL. *)
(* A string that the code takes apart is a sequence of one-character       *)
(* strings.                                                                *)
(***************************************************************************)
EXTENDS Integers, Sequences, FiniteSets, TLC

VARIABLES
    cls,        \* class of the dataset instance
    args,       \* constructor arguments of a RasterUpdater
    ds,         \* the instance's fields
    store,      \* the file at the instance's path (the backing store)
    nextH,      \* the next native handle GDALOpen/GDALCreate hands out
    closes,     \* closes[h]: number of GDALClose calls made on handle h
    flushes,    \* number of GDALFlushCache calls made
    disposed,   \* the instance has been deallocated
    lastOp,     \* the operation that ran last
    again,      \* the last operation was a stop() after a stop(), or a close() after a close()
    res,        \* what the last start() or property read returned or raised
    bsRead,     \* block_shapes has been read on this instance
    win,        \* window argument of the window functions
    dims,       \* <<height, width>> argument of the window functions
    wres,       \* result of the last window function
    wop,        \* the window function that ran last
    gen,        \* the generator the last block_windows() call made
    yielded,    \* the items that generator has yielded so far
    pixels,     \* the pixel values of the file at the instance's path
    io,         \* the last read_band or write_band call: arguments and outcome
    geo,        \* arguments and results of the coordinate functions
    prj         \* a CRS mapping, its PROJ text and what parsing a text gave

vars == <<cls, args, ds, store, nextH, closes, flushes, disposed,
          lastOp, again, res, bsRead, win, dims, wres, wop, gen, yielded,
          pixels, io, geo, prj>>

dsvars == <<cls, args, ds, store, nextH, closes, flushes, disposed,
            lastOp, again, res, bsRead>>

winvars == <<win, dims, wres, wop>>

genvars == <<gen, yielded>>

iovars == <<pixels, io>>

geovars == <<geo>>

prjvars == <<prj>>

\* What the life cycle leaves alone, and what the window functions do
notds == <<winvars, genvars, iovars, geovars, prjvars>>

notwin == <<dsvars, genvars, iovars, geovars, prjvars>>

----------------------------------------------------------------------------
(* Bounds of the model. *)

\* Number of native handles one run may acquire.
MaxOpens == 2

\* Largest raster dimension and largest magnitude of a window bound.
MaxDim == 2

\* Largest side of a band's blocks.
MaxBlock == 2

----------------------------------------------------------------------------
(* Python values. *)

None == <<>>

Some(x) == <<x>>

\* Python truth value of an optional list: None and empty are false.
Truthy(x) == x # None /\ x[1] # <<>>

\* The value kept in _crs: a mapping, as the sequence of its items, or (see
\* RasterReader.get_crs_wkt) a WKT string.
Dict(items) == <<"dict", items>>

Wkt(text) == <<"wkt", text>>

\* Python truth value of _crs: None, {} and '' are false.
CrsTruthy(x) ==
    /\ x # None
    /\ IF x[1][1] = "dict" THEN x[1][2] # <<>> ELSE x[1][2] # ""

\* Python truth value of an optional string
StrTruthy(x) == x # None /\ x[1] # ""

Last(s) == s[Len(s)]

----------------------------------------------------------------------------
(* Window arithmetic.  A window is <<<<row_start, row_stop>>,              *)
(* <<col_start, col_stop>>>>; as an argument each bound is None or <<v>>.  *)

\* Python's `x or d` for a bound x that is None or an integer.
PyOr(x, d) == IF x = None \/ x = Some(0) THEN d ELSE x[1]

WinOk(v) == [ok |-> TRUE, err |-> "", val |-> v]

WinErr(e) == [ok |-> FALSE, err |-> e, val |-> <<>>]

NoRes == WinErr("not run")

\* An axis evaluation that resolves the bounds and never compares them
eval_axis_unordered(b, dim, dimErr, rangeErr) ==
    LET start0 == PyOr(b[1], 0)
        stop0  == PyOr(b[2], dim)
    IN  IF (start0 < 0 \/ stop0 < 0) /\ dim < 0 THEN WinErr(dimErr)
        ELSE WinOk(<<IF start0 < 0 THEN start0 + dim ELSE start0,
                     IF stop0 < 0 THEN stop0 + dim ELSE stop0>>)

\* One axis of eval_window: b is <<start, stop>>, dim the height or width,
\* dimErr and rangeErr the two messages of the axis.
eval_axis(b, dim, dimErr, rangeErr) ==
    LET start0 == PyOr(b[1], 0)
        start  == IF start0 < 0 THEN start0 + dim ELSE start0
        stop0  == PyOr(b[2], dim)
        stop   == IF stop0 < 0 THEN stop0 + dim ELSE stop0
    IN  IF start0 < 0 /\ dim < 0 THEN WinErr(dimErr)
        ELSE IF stop0 < 0 /\ dim < 0 THEN WinErr(dimErr)
        ELSE IF ~(stop >= start) THEN WinErr(rangeErr)
        ELSE WinOk(<<start, stop>>)

eval_window(window, height, width) ==
    LET r == eval_axis(window[1], height, "invalid height", "invalid window: row range")
        c == eval_axis(window[2], width, "invalid width", "invalid window: col range")
    IN  IF ~r.ok THEN r
        ELSE IF ~c.ok THEN c
        ELSE WinOk(<<r.val, c.val>>)

window_shape(window, height, width) ==
    LET e == eval_window(window, height, width)
    IN  IF ~e.ok THEN e
        ELSE WinOk(<<e.val[1][2] - e.val[1][1], e.val[2][2] - e.val[2][1]>>)

\* A crop that clamps each bound from below only
crop_window_from_below(window, height, width) ==
    IF \E i \in 1..2 : \E k \in 1..2 : window[i][k] = None THEN WinErr("TypeError")
    ELSE WinOk(<<<<IF window[1][1][1] < 0 THEN 0 ELSE window[1][1][1],
                   IF window[1][2][1] < 0 THEN 0 ELSE window[1][2][1]>>,
                 <<IF window[2][1][1] < 0 THEN 0 ELSE window[2][1][1],
                   IF window[2][2][1] < 0 THEN 0 ELSE window[2][2][1]>>>>)

\* A crop that clamps a start into the raster and a stop from above only
crop_window_stop_from_above(window, height, width) ==
    IF \E i \in 1..2 : \E k \in 1..2 : window[i][k] = None THEN WinErr("TypeError")
    ELSE WinOk(<<<<IF window[1][1][1] < 0 THEN 0
                   ELSE IF window[1][1][1] > height THEN height ELSE window[1][1][1],
                   IF window[1][2][1] > height THEN height ELSE window[1][2][1]>>,
                 <<IF window[2][1][1] < 0 THEN 0
                   ELSE IF window[2][1][1] > width THEN width ELSE window[2][1][1],
                   IF window[2][2][1] > width THEN width ELSE window[2][2][1]>>>>)

\* Python's min and max of two integers
Min(a, b) == IF a <= b THEN a ELSE b

Max(a, b) == IF a >= b THEN a ELSE b

\* crop_window: the four bounds are unpacked into C ints, which None is not
crop_window(window, height, width) ==
    IF \E i \in 1..2 : \E k \in 1..2 : window[i][k] = None THEN WinErr("TypeError")
    ELSE WinOk(<<<<Min(Max(window[1][1][1], 0), height),
                   Max(0, Min(window[1][2][1], height))>>,
                 <<Min(Max(window[2][1][1], 0), width),
                   Max(0, Min(window[2][2][1], width))>>>>)

\* A window of integers, as returned, passed back as an argument.
AsArg(w) == <<<<Some(w[1][1]), Some(w[1][2])>>, <<Some(w[2][1]), Some(w[2][2])>>>>

\* The inputs the window functions are checked on.
Bounds == {None} \cup {Some(v) : v \in (0 - MaxDim - 1) .. MaxDim}

Windows == (Bounds \X Bounds) \X (Bounds \X Bounds)

Dims == (-1 .. MaxDim) \X (-1 .. MaxDim)

NoWres == [ev |-> NoRes, ev2 |-> NoRes, shape |-> NoRes, crop |-> NoRes]

\* eval_window(win, height, width)
EvalWindow ==
    /\ wop = "none"
    /\ wres' = [wres EXCEPT !.ev = eval_window(win, dims[1], dims[2])]
    /\ wop' = "eval_window"
    /\ UNCHANGED <<win, dims>>
    /\ UNCHANGED notwin

\* eval_window applied to the window eval_window returned
ReEvalWindow ==
    /\ wop = "eval_window"
    /\ wres.ev.ok
    /\ wres' = [wres EXCEPT !.ev2 = eval_window(AsArg(wres.ev.val), dims[1], dims[2])]
    /\ wop' = "eval_window2"
    /\ UNCHANGED <<win, dims>>
    /\ UNCHANGED notwin

\* window_shape(win, height, width)
WindowShape ==
    /\ wop = "none"
    /\ wres' = [wres EXCEPT !.shape = window_shape(win, dims[1], dims[2])]
    /\ wop' = "window_shape"
    /\ UNCHANGED <<win, dims>>
    /\ UNCHANGED notwin

\* crop_window(win, height, width)
CropWindow ==
    /\ wop = "none"
    /\ wres' = [wres EXCEPT !.crop = crop_window(win, dims[1], dims[2])]
    /\ wop' = "crop_window"
    /\ UNCHANGED <<win, dims>>
    /\ UNCHANGED notwin


----------------------------------------------------------------------------
(* Strings that the code takes apart, as sequences of characters. *)

RECURSIVE SplitOn(_, _)
\* str.split(c) for a one-character separator c
SplitOn(s, c) ==
    IF \A i \in 1..Len(s) : s[i] # c THEN <<s>>
    ELSE LET i == CHOOSE k \in 1..Len(s) :
                      s[k] = c /\ \A j \in 1..(k - 1) : s[j] # c
         IN  <<SubSeq(s, 1, i - 1)>> \o SplitOn(SubSeq(s, i + 1, Len(s)), c)

\* str.strip().split(): the non-empty runs between blanks
SplitWs(s) == SelectSeq(SplitOn(s, " "), LAMBDA part : part # <<>>)

RECURSIVE LStrip(_, _)
\* str.lstrip(c)
LStrip(s, c) == IF s # <<>> /\ s[1] = c THEN LStrip(Tail(s), c) ELSE s

RECURSIVE Join(_, _)
\* c.join(parts)
Join(parts, c) ==
    IF parts = <<>> THEN <<>>
    ELSE IF Len(parts) = 1 THEN parts[1]
    ELSE parts[1] \o <<c>> \o Join(Tail(parts), c)

DigitChars == <<"0", "1", "2", "3", "4", "5", "6", "7", "8", "9">>

IsDigit(c) == \E i \in 1..10 : DigitChars[i] = c

DigitVal(c) == (CHOOSE i \in 1..10 : DigitChars[i] = c) - 1

RECURSIVE DigitsVal(_)
DigitsVal(s) == IF s = <<>> THEN 0 ELSE 10 * DigitsVal(SubSeq(s, 1, Len(s) - 1)) + DigitVal(Last(s))

RECURSIVE NatChars(_)
\* str(n) for n >= 0
NatChars(n) == IF n < 10 THEN <<DigitChars[n + 1]>> ELSE NatChars(n \div 10) \o <<DigitChars[(n % 10) + 1]>>

IntChars(n) == IF n < 0 THEN <<"-">> \o NatChars(0 - n) ELSE NatChars(n)

\* The text v of a number without its sign, split at the point
FloatParts(v) ==
    SplitOn(IF v # <<>> /\ v[1] \in {"-", "+"} THEN Tail(v) ELSE v, ".")

\* The parts are those of a text float(v) accepts
AreFloatParts(parts) ==
    /\ Len(parts) \in {1, 2}
    /\ \A i \in 1..Len(parts) : \A j \in 1..Len(parts[i]) : IsDigit(parts[i][j])
    /\ \E i \in 1..Len(parts) : parts[i] # <<>>

\* float(v) accepts v: an optional sign, digits, an optional point and digits
\* (the forms of a number in a PROJ string; exponents are left out).
IsFloatText(v) == AreFloatParts(FloatParts(v))

\* The number of the text v with the parts `parts`: an int when its
\* fraction is zero
NumberFrom(v, parts) ==
    LET frac == IF Len(parts) = 2 THEN parts[2] ELSE <<>>
    IN  IF \A j \in 1..Len(frac) : frac[j] = "0"
        THEN <<"int", IF v[1] = "-" THEN 0 - DigitsVal(parts[1]) ELSE DigitsVal(parts[1])>>
        ELSE <<"float", v>>

\* float(v) followed by `if v % 1 == 0: v = int(v)`, for v accepted by float
NumberOf(v) == NumberFrom(v, FloatParts(v))

\* dict[k] = v on a dict kept as the sequence of its <<key, value>> items
DictSet(d, k, v) ==
    IF \E i \in 1..Len(d) : d[i][1] = k
    THEN [i \in 1..Len(d) |-> IF d[i][1] = k THEN <<k, v>> ELSE d[i]]
    ELSE Append(d, <<k, v>>)


----------------------------------------------------------------------------
(* The backing store: the file at the dataset's path, as the native engine *)
(* reports it.  dt[i] is band i's GDAL type code, bs[i] its block shape    *)
(* <<rows, cols>>, nd[i] its <<success flag, nodata value>>; wkt is the    *)
(* projection WKT, epsg the code OSRAutoIdentifyEPSG finds (None when it   *)
(* fails), proj the text OSRExportToProj4 gives, gt the geotransform.      *)

NoFile ==
    [exists |-> FALSE, driver |-> "", count |-> 0, width |-> 0, height |-> 0,
     dt |-> <<>>, bs |-> <<>>, nd |-> <<>>,
     wkt |-> "", epsg |-> None, proj |-> <<>>, gt |-> <<0, 1, 0, 0, 0, 1>>]

\* no bands, not georeferenced
FileEmpty ==
    [NoFile EXCEPT !.exists = TRUE, !.driver = "GTiff", !.width = 2, !.height = 2]

\* one byte band, a CRS with an EPSG code
FileByte ==
    [exists |-> TRUE, driver |-> "GTiff", count |-> 1, width |-> 2, height |-> 2,
     dt |-> <<1>>, bs |-> << <<1, 2>> >>, nd |-> << <<1, 0>> >>,
     wkt |-> "GEOGCS", epsg |-> Some(<<"4", "3">>),
     proj |-> <<"+", "p", "=", "l">>, gt |-> <<10, 1, 0, 20, 0, -1>>]

\* two bands of different types and block shapes, a CRS without EPSG code
FileTwo ==
    [exists |-> TRUE, driver |-> "GTiff", count |-> 2, width |-> 2, height |-> 1,
     dt |-> <<6, 1>>, bs |-> << <<1, 2>>, <<1, 1>> >>, nd |-> << <<0, 0>>, <<1, 300>> >>,
     wkt |-> "LOCAL_CS", epsg |-> None,
     proj |-> <<"+", "p", "=", "l", " ", "+", "k", "=", "1", ".", "0", " ", "+", "n">>,
     gt |-> <<0, 2, 0, 0, 0, -2>>]

\* one float band, a CRS whose PROJ text holds a token with two '='
FileOdd ==
    [exists |-> TRUE, driver |-> "GTiff", count |-> 1, width |-> 1, height |-> 2,
     dt |-> <<6>>, bs |-> << <<2, 1>> >>, nd |-> << <<1, -1>> >>,
     wkt |-> "PROJCS", epsg |-> None,
     proj |-> <<"+", "a", "=", "b", "=", "c">>, gt |-> <<5, 1, 0, 5, 0, -1>>]

Files == {FileEmpty, FileByte, FileTwo, FileOdd}

\* one byte band, a local coordinate system: a WKT for which
\* OSRAutoIdentifyEPSG fails and OSRExportToProj4 gives the empty text
FileLocal ==
    [exists |-> TRUE, driver |-> "GTiff", count |-> 1, width |-> 1, height |-> 1,
     dt |-> <<1>>, bs |-> << <<1, 1>> >>, nd |-> << <<0, 0>> >>,
     wkt |-> "LOCAL_CS[]", epsg |-> None, proj |-> <<>>, gt |-> <<0, 1, 0, 0, 0, -1>>]

CrsFiles == Files \cup {FileLocal}

\* two byte bands, the first with a nodata value and the second without
FilePart ==
    [exists |-> TRUE, driver |-> "GTiff", count |-> 2, width |-> 2, height |-> 1,
     dt |-> <<1, 1>>, bs |-> << <<1, 2>>, <<1, 2>> >>, nd |-> << <<1, 0>>, <<0, 0>> >>,
     wkt |-> "", epsg |-> None, proj |-> <<>>, gt |-> <<0, 1, 0, 0, 0, -1>>]

AbortFiles == {FileByte, FileTwo, FilePart}

\* Whether val lies in rasterio.dtypes.dtype_ranges[dtype] of the dtype
\* with GDAL type code `code`.  The upper end of uint32 and both ends of the
\* float types lie beyond every nodata value of the model's files.
InDtypeRange(code, val) ==
    CASE code = 1 -> 0 <= val /\ val <= 255
      [] code = 2 -> 0 <= val /\ val <= 65535
      [] code = 3 -> -32768 <= val /\ val <= 32767
      [] code = 4 -> 0 <= val
      [] code = 5 -> -2147483647 <= val /\ val <= 2147483647
      [] OTHER -> TRUE

\* Calls on a dataset or method results: the instance after the call, and
\* the value returned or the exception raised.
Ret(d, v) == [ok |-> TRUE, err |-> "", val |-> v, ds |-> d]

Raise(d, e) == [ok |-> FALSE, err |-> e, val |-> <<>>, ds |-> d]

\* One statement after another: r is what a call gave; if it raised, the
\* exception propagates, and otherwise Rest(r) runs.
Then(r, Rest(_)) == IF r.ok THEN Rest(r) ELSE r

ClosedErr == "ValueError: can't read closed raster file"

NullDatasetErr == "ValueError: Null dataset"

NullBandErr == "ValueError: NULL band"

\* Number of bands, of the n asked for, that a loop `for i in range(n):
\* band = self.band(i + 1)` gets before band() raises.
BandsGot(d, f, n) == IF d.hds = 0 THEN 0 ELSE IF n < f.count THEN n ELSE f.count

\* The exception band(bidx) raises: GDALGetRasterBand on a NULL dataset
\* gives NULL, and an index out of range the illegal-argument error.
BandErr(d) == IF d.hds = 0 THEN NullBandErr ELSE "IndexError"


----------------------------------------------------------------------------
(* Reading the CRS. *)

\* A parameter parsed with the '+' left on its key
ParseKv_keeping_plus(kv) ==
    IF Len(kv) = 2
    THEN <<kv[1], IF IsFloatText(kv[2]) THEN NumberOf(kv[2]) ELSE <<"str", kv[2]>> >>
    ELSE IF Len(kv) = 1 THEN <<kv[1], <<"bool", TRUE>> >>
    ELSE <<>>

\* One PROJ parameter split at '=': the <<key, value>> it stands for, or
\* <<>> when it has more than one '='.
ParseKv(kv) ==
    IF Len(kv) = 2
    THEN <<LStrip(kv[1], "+"),
           IF IsFloatText(kv[2]) THEN NumberOf(kv[2]) ELSE <<"str", kv[2]>> >>
    ELSE IF Len(kv) = 1 THEN <<LStrip(kv[1], "+"), <<"bool", TRUE>> >>
    ELSE <<>>

ParseParam(param) == ParseKv(SplitOn(param, "="))

RECURSIVE ParseParams(_, _)
RECURSIVE ParseRest(_, _, _)
\* The loop `for param in value.split()` over the parameters left, crs being
\* the mapping built so far: the mapping, or <<"error">> once a parameter is
\* malformed.
ParseParams(params, crs) ==
    IF params = <<>> THEN <<"ok", crs>>
    ELSE ParseRest(ParseParam(params[1]), Tail(params), crs)

\* The loop after the parameter that stands for item
ParseRest(item, rest, crs) ==
    IF item = <<>> THEN <<"error">>
    ELSE ParseParams(rest, DictSet(crs, item[1], item[2]))

UnexpectedParamErr == "ValueError: Unexpected proj parameter"

\* What read_crs gives for the parameters parsed
CrsParsed(d, parsed) ==
    IF parsed[1] = "ok" THEN Ret(d, Dict(parsed[2])) ELSE Raise(d, UnexpectedParamErr)

\* DatasetBase.read_crs
DatasetBase_read_crs(d, f) ==
    IF d.hds = 0 THEN Raise(d, NullDatasetErr)
    ELSE IF f.wkt = "" THEN Ret(d, Dict(<<>>))
    ELSE IF f.epsg # None
    THEN Ret(d, Dict(<< <<<<"i", "n", "i", "t">>,
                          <<"str", <<"e", "p", "s", "g", ":">> \o f.epsg[1]>> >> >>))
    ELSE CrsParsed(d, ParseParams(SplitWs(f.proj), <<>>))

\* DatasetBase.read_transform
DatasetBase_read_transform(d, f) ==
    IF d.hds = 0 THEN Raise(d, NullDatasetErr) ELSE Ret(d, f.gt)

----------------------------------------------------------------------------
(* DatasetBase: the fields of an instance and its methods. *)

\* DatasetBase.__init__
DatasetBase_init ==
    [mode |-> "r", hds |-> 0, count |-> 0, closed |-> TRUE, dtypes |-> <<>>,
     block_shapes |-> None, nodatavals |-> Some(<<>>), crs |-> None,
     crs_wkt |-> None, transform |-> None, read |-> FALSE,
     driver |-> None, width |-> None, height |-> None]

\* DatasetBase.count
DatasetBase_count(d, f) ==
    IF d.count = 0
    THEN IF d.hds = 0 THEN Raise(d, "ValueError: Can't read closed raster file")
         ELSE Ret([d EXCEPT !.count = f.count], f.count)
    ELSE Ret(d, d.count)

\* DatasetBase.dtypes
DatasetBase_dtypes(d, f) ==
    IF d.dtypes = <<>>
    THEN LET got == BandsGot(d, f, d.count)
             d1 == [d EXCEPT !.dtypes = [i \in 1..got |-> f.dt[i]]]
         IN  IF got < d.count THEN Raise(d1, BandErr(d)) ELSE Ret(d1, d1.dtypes)
    ELSE Ret(d, d.dtypes)

\* DatasetBase.block_shapes
DatasetBase_block_shapes(d, f) ==
    IF d.block_shapes = None
    THEN LET got == BandsGot(d, f, d.count)
             d1 == [d EXCEPT !.block_shapes = Some([i \in 1..got |-> f.bs[i]])]
         IN  IF got < d.count THEN Raise(d1, BandErr(d)) ELSE Ret(d1, d1.block_shapes[1])
    ELSE Ret(d, d.block_shapes[1])

\* The nodata value get_nodatavals keeps for band i
NodataOf(f, i) ==
    LET success == f.nd[i][1]
        val == f.nd[i][2]
    IN  IF success = 0 \/ ~InDtypeRange(f.dt[i], val)
        THEN None
        ELSE Some(val)

\* DatasetBase.get_nodatavals
DatasetBase_get_nodatavals(d, f) ==
    IF ~Truthy(d.nodatavals)
    THEN LET got == BandsGot(d, f, d.count)
             d1 == [d EXCEPT !.nodatavals = Some([i \in 1..got |-> NodataOf(f, i)])]
         IN  IF got < d.count THEN Raise(d1, BandErr(d)) ELSE Ret(d1, d1.nodatavals[1])
    ELSE Ret(d, d.nodatavals[1])

\* DatasetBase.nodata
DatasetBase_nodata(d, f) ==
    Then(DatasetBase_count(d, f), LAMBDA c :
        IF c.val = 0 THEN Ret(c.ds, None)
        ELSE Then(DatasetBase_get_nodatavals(c.ds, f), LAMBDA n :
                IF n.val = <<>> THEN Raise(n.ds, "IndexError")
                ELSE Ret(n.ds, n.val[1])))

\* DatasetBase.get_crs
DatasetBase_get_crs(d, f) ==
    IF ~d.read /\ d.crs = None
    THEN Then(DatasetBase_read_crs(d, f), LAMBDA r :
            Ret([d EXCEPT !.crs = Some(r.val)], Some(r.val)))
    ELSE Ret(d, d.crs)

\* DatasetBase.get_transform
DatasetBase_get_transform(d, f) ==
    IF ~d.read /\ d.transform = None
    THEN Then(DatasetBase_read_transform(d, f), LAMBDA r :
            Ret([d EXCEPT !.transform = Some(r.val)], Some(r.val)))
    ELSE Ret(d, d.transform)

\* DatasetBase.affine: Affine.from_gdal(*self.get_transform())
DatasetBase_affine(d, f) ==
    Then(DatasetBase_get_transform(d, f), LAMBDA t :
        IF t.val = None THEN Raise(t.ds, "TypeError") ELSE Ret(t.ds, t.val[1]))

\* DatasetBase.meta: the properties it reads, in the order it reads them
DatasetBase_meta(d, f) ==
    Then(DatasetBase_count(d, f), LAMBDA c :
    Then(IF c.val = 0 THEN c
         ELSE Then(DatasetBase_dtypes(c.ds, f), LAMBDA y :
                 IF y.val = <<>> THEN Raise(y.ds, "IndexError") ELSE y), LAMBDA t :
    Then(DatasetBase_nodata(t.ds, f), LAMBDA n :
    Then(DatasetBase_count(n.ds, f), LAMBDA k :
    Then(DatasetBase_get_crs(k.ds, f), LAMBDA r :
    Then(DatasetBase_affine(r.ds, f), LAMBDA a :
    Ret([a.ds EXCEPT !.read = TRUE], "meta")))))))

\* A start() that takes the handle and the sizes and reads nothing else
Start_reading_nothing(d, f, h) ==
    LET d0 == [d EXCEPT !.hds = h]
    IN  IF h = 0 THEN Raise(d0, "RasterioIOError")
        ELSE Ret([d0 EXCEPT !.driver = Some(f.driver), !.count = f.count,
                            !.width = Some(f.width), !.height = Some(f.height),
                            !.closed = FALSE], None)

\* DatasetBase.start: h is the handle GDALOpen gives, 0 when it fails
DatasetBase_start(d, f, h) ==
    LET d0 == [d EXCEPT !.hds = h]
        d1 == [d0 EXCEPT !.driver = Some(f.driver), !.count = f.count,
                         !.width = Some(f.width), !.height = Some(f.height)]
    IN  IF h = 0 THEN Raise(d0, "RasterioIOError")
        ELSE Then(DatasetBase_read_transform(d1, f), LAMBDA t :
             Then(DatasetBase_read_crs([t.ds EXCEPT !.transform = Some(t.val)], f), LAMBDA c :
             Then(DatasetBase_meta([c.ds EXCEPT !.crs = Some(c.val)], f), LAMBDA m :
             Ret([m.ds EXCEPT !.closed = FALSE], None))))

\* A stop() that makes its two native calls and leaves _hds as it is
Stop_keeping_handle(d) ==
    [ds |-> d, flush |-> d.hds, close |-> d.hds]

\* DatasetBase.stop: the instance afterwards, and the handles it passes to
\* GDALFlushCache and GDALClose (0: the call is not made)
DatasetBase_stop(d) ==
    [ds |-> [d EXCEPT !.hds = 0], flush |-> d.hds, close |-> d.hds]

\* DatasetBase.close
DatasetBase_close(d) ==
    LET s == DatasetBase_stop(d)
    IN  [s EXCEPT !.ds = [s.ds EXCEPT !.closed = TRUE]]

\* DatasetBase.__exit__
DatasetBase_exit(d) == DatasetBase_close(d)

\* DatasetBase.__dealloc__
DatasetBase_dealloc(d) == [ds |-> d, flush |-> 0, close |-> d.hds]


----------------------------------------------------------------------------
(* RasterReader. *)

\* RasterReader.__init__
RasterReader_init ==
    [mode |-> "r", hds |-> 0, count |-> 0, closed |-> TRUE, dtypes |-> <<>>,
     block_shapes |-> Some(<<>>), nodatavals |-> Some(<<>>), crs |-> None,
     crs_wkt |-> None, transform |-> None, read |-> FALSE,
     driver |-> None, width |-> None, height |-> None]

\* RasterReader.read_crs
RasterReader_read_crs(d, f) ==
    IF d.hds = 0 THEN Raise(d, NullDatasetErr)
    ELSE CrsParsed(d, ParseParams(SplitWs(f.proj), <<>>))

\* RasterReader.read_crs_wkt
RasterReader_read_crs_wkt(d, f) ==
    IF d.hds = 0 THEN Raise(d, NullDatasetErr) ELSE Ret(d, f.wkt)

\* RasterReader.read_transform
RasterReader_read_transform(d, f) ==
    IF d.hds = 0 THEN Raise(d, NullDatasetErr) ELSE Ret(d, f.gt)

\* RasterReader.start: h is the handle GDALOpen gives, 0 when it fails
RasterReader_start(d, f, h) ==
    LET d0 == [d EXCEPT !.hds = h]
        d1 == [d0 EXCEPT !.driver = Some(f.driver), !.count = f.count,
                         !.width = Some(f.width), !.height = Some(f.height)]
    IN  IF h = 0 THEN Raise(d0, NullDatasetErr)
        ELSE Then(RasterReader_read_transform(d1, f), LAMBDA t :
             Then(RasterReader_read_crs([t.ds EXCEPT !.transform = Some(t.val)], f), LAMBDA c :
             Then(RasterReader_read_crs_wkt([c.ds EXCEPT !.crs = Some(c.val)], f), LAMBDA w :
             Ret([w.ds EXCEPT !.crs_wkt = Some(w.val), !.closed = FALSE], None))))

\* RasterReader.stop: the instance afterwards, and the handle it passes to
\* GDALClose (0: the call is not made); it does not flush
RasterReader_stop(d) ==
    [ds |-> [d EXCEPT !.hds = 0], flush |-> 0, close |-> d.hds]

\* RasterReader.close
RasterReader_close(d) ==
    LET s == RasterReader_stop(d)
    IN  [s EXCEPT !.ds = [s.ds EXCEPT !.closed = TRUE]]

\* RasterReader.__exit__
RasterReader_exit(d) == RasterReader_close(d)

\* RasterReader.__dealloc__
RasterReader_dealloc(d) == RasterReader_stop(d)

\* RasterReader.count
RasterReader_count(d, f) ==
    IF d.count = 0
    THEN IF d.hds = 0 THEN Raise(d, "ValueError: Can't read closed raster file")
         ELSE Ret([d EXCEPT !.count = f.count], f.count)
    ELSE Ret(d, d.count)

\* RasterReader.dtypes
RasterReader_dtypes(d, f) ==
    IF d.dtypes = <<>>
    THEN IF d.hds = 0 THEN Raise(d, ClosedErr)
         ELSE LET d1 == [d EXCEPT !.dtypes = [i \in 1..d.count |-> f.dt[i]]]
              IN  Ret(d1, d1.dtypes)
    ELSE Ret(d, d.dtypes)

\* RasterReader.block_shapes; in a RasterUpdater _block_shapes starts as
\* None, which has no append
RasterReader_block_shapes(d, f) ==
    IF ~Truthy(d.block_shapes)
    THEN IF d.hds = 0 THEN Raise(d, ClosedErr)
         ELSE IF d.count = 0 THEN Ret(d, d.block_shapes)
         ELSE IF d.block_shapes = None THEN Raise(d, "AttributeError")
         ELSE LET d1 == [d EXCEPT !.block_shapes = Some([i \in 1..d.count |-> f.bs[i]])]
              IN  Ret(d1, d1.block_shapes)
    ELSE Ret(d, d.block_shapes)

\* Number of leading bands of f whose nodata success flag is set
RECURSIVE NodataPrefix(_, _)
NodataPrefix(f, i) ==
    IF i > f.count \/ f.nd[i][1] = 0 THEN i - 1 ELSE NodataPrefix(f, i + 1)

\* RasterReader.nodatavals: val is a C double, and `val = None`, reached
\* when the success flag is 0, is a TypeError
RasterReader_nodatavals(d, f) ==
    IF ~Truthy(d.nodatavals)
    THEN IF d.hds = 0 THEN Raise(d, ClosedErr)
         ELSE IF d.count = 0 THEN Ret(d, d.nodatavals)
         ELSE IF d.nodatavals = None THEN Raise(d, "AttributeError")
         ELSE LET got == NodataPrefix(f, 1)
                  d1 == [d EXCEPT !.nodatavals = Some([i \in 1..got |-> f.nd[i][2]])]
              IN  IF got < d.count THEN Raise(d1, "TypeError") ELSE Ret(d1, d1.nodatavals)
    ELSE Ret(d, d.nodatavals)

\* RasterReader.get_crs
RasterReader_get_crs(d, f) ==
    IF ~CrsTruthy(d.crs)
    THEN Then(RasterReader_read_crs(d, f), LAMBDA r :
            Ret([d EXCEPT !.crs = Some(r.val)], Some(r.val)))
    ELSE Ret(d, d.crs)

\* RasterReader.get_crs_wkt
RasterReader_get_crs_wkt(d, f) ==
    IF ~StrTruthy(d.crs_wkt)
    THEN Then(RasterReader_read_crs_wkt(d, f), LAMBDA r :
            Ret([d EXCEPT !.crs = Some(Wkt(r.val))], d.crs_wkt))
    ELSE Ret(d, d.crs_wkt)

\* RasterReader.get_transform
RasterReader_get_transform(d, f) ==
    IF ~Truthy(d.transform)
    THEN Then(RasterReader_read_transform(d, f), LAMBDA r :
            Ret([d EXCEPT !.transform = Some(r.val)], Some(r.val)))
    ELSE Ret(d, d.transform)


----------------------------------------------------------------------------
(* RasterUpdater.  Its constructor arguments are a record: mode, driver,   *)
(* width, height, count, crs, transform, nodata, and the dtype as          *)
(* <<form, code>>: form "np" for an object with a .type attribute (a numpy *)
(* dtype), "key" for anything else, and code the GDAL type code that       *)
(* dtypes.dtype_rev holds for it, 0 when it holds none.                    *)

\* no arguments: the instance is not a RasterUpdater
NoArgs ==
    [mode |-> "r", driver |-> "", width |-> 0, height |-> 0, count |-> 0,
     crs |-> None, transform |-> None, nodata |-> None, dtype |-> <<"np", 0>>]

\* RasterUpdater.__init__
RasterUpdater_init(a) ==
    [mode |-> a.mode, hds |-> 0, count |-> a.count, closed |-> TRUE, dtypes |-> <<>>,
     block_shapes |-> None, nodatavals |-> None, crs |-> a.crs,
     crs_wkt |-> None, transform |-> a.transform, read |-> FALSE,
     driver |-> Some(a.driver), width |-> Some(a.width), height |-> Some(a.height)]

\* str(v) of a CRS value
ValueText(v) ==
    CASE v[1] = "int" -> IntChars(v[2])
      [] v[1] = "bool" -> IF v[2] THEN <<"T", "r", "u", "e">> ELSE <<"F", "a", "l", "s", "e">>
      [] OTHER -> v[2]

\* The PROJ text RasterUpdater.write_crs builds from a mapping
RasterUpdater_proj(items) ==
    Join([i \in 1..Len(items) |->
            IF items[i][2] = <<"bool", TRUE>>
               \/ (items[i][1] = <<"n", "o", "_", "d", "e", "f", "s">>
                   /\ items[i][2] \notin {<<"bool", FALSE>>, <<"int", 0>>, <<"str", <<>>>>})
            THEN <<"+">> \o items[i][1]
            ELSE <<"+">> \o items[i][1] \o <<"=">> \o ValueText(items[i][2])],
         " ")

\* The file GDALCreate makes from the instance's driver, width, height and
\* count, and the type code
Created(d, code) ==
    [exists |-> TRUE, driver |-> d.driver[1], count |-> d.count,
     width |-> d.width[1], height |-> d.height[1],
     dt |-> [i \in 1..d.count |-> code],
     bs |-> [i \in 1..d.count |-> <<1, d.width[1]>>],
     nd |-> [i \in 1..d.count |-> <<0, 0>>],
     wkt |-> "", epsg |-> None, proj |-> <<>>, gt |-> <<0, 1, 0, 0, 0, 1>>]

CallOk(d, f) == [ok |-> TRUE, err |-> "", val |-> None, ds |-> d, store |-> f]

CallErr(d, f, e) == [ok |-> FALSE, err |-> e, val |-> <<>>, ds |-> d, store |-> f]

\* RasterUpdater.write_transform
RasterUpdater_write_transform(d, f, transform) ==
    IF d.hds = 0 THEN CallErr(d, f, "ValueError: Can't read closed raster file")
    ELSE CallOk([d EXCEPT !.transform = Some(transform)], [f EXCEPT !.gt = transform])

\* RasterUpdater.write_crs; a string has no items()
RasterUpdater_write_crs(d, f, crs) ==
    IF d.hds = 0 THEN CallErr(d, f, "ValueError: Can't read closed raster file")
    ELSE IF crs[1] # "dict" THEN CallErr(d, f, "AttributeError")
    ELSE CallOk([d EXCEPT !.crs = Some(crs)],
                [f EXCEPT !.proj = RasterUpdater_proj(crs[2]),
                          !.wkt = IF crs[2] = <<>> THEN "" ELSE "PROJ4"])

\* The end of RasterUpdater.start, common to the modes: the sizes are read
\* through the handle (the engine answers 0 for a NULL handle) and the
\* instance is marked open.
RasterUpdater_opened(d, f) ==
    [d EXCEPT !.count = IF d.hds = 0 THEN 0 ELSE f.count,
              !.width = Some(IF d.hds = 0 THEN 0 ELSE f.width),
              !.height = Some(IF d.hds = 0 THEN 0 ELSE f.height),
              !.closed = FALSE]

\* A start in mode 'w' that removes the file at the path before it looks at
\* the driver
RasterUpdater_start_w_unlinking_first(d, a, f, h) ==
    LET f1 == IF f.exists THEN NoFile ELSE f
        code == a.dtype[2]
        d1 == [d EXCEPT !.hds = h]
        f2 == IF h = 0 THEN f1 ELSE Created(d, code)
    IN  IF d.driver # Some("GTiff")
        THEN CallErr(d, f1, "ValueError: only GTiffs can be opened in 'w' mode")
        ELSE IF code = 0 THEN CallErr(d, f1, "ValueError: Unsupported dtype")
        ELSE CallOk(RasterUpdater_opened(d1, f2), f2)

\* RasterUpdater.start in mode 'w'; h is the handle GDALCreate gives, 0 when
\* it fails
RasterUpdater_start_w(d, a, f, h) ==
    LET f1 == IF f.exists THEN NoFile ELSE f
        code == a.dtype[2]
        d1 == [d EXCEPT !.hds = h]
        f2 == IF h = 0 THEN f1 ELSE Created(d, code)
        f3 == IF a.nodata = None THEN f2
              ELSE [f2 EXCEPT !.nd = [i \in 1..d.count |-> <<1, a.nodata[1]>>]]
    IN  IF d.driver # Some("GTiff")
        THEN CallErr(d, f, "ValueError: only GTiffs can be opened in 'w' mode")
        ELSE IF a.dtype[1] = "np" /\ code = 0
        THEN CallErr(d, f1, "ValueError: Unsupported dtype")
        ELSE IF code = 0 THEN CallErr(d, f1, "TypeError")
        ELSE IF a.nodata # None /\ h = 0 THEN CallErr(d1, f2, ClosedErr)
        ELSE Then(IF Truthy(d1.transform)
                  THEN RasterUpdater_write_transform(d1, f3, d1.transform[1])
                  ELSE CallOk(d1, f3), LAMBDA t :
             Then(IF CrsTruthy(t.ds.crs)
                  THEN RasterUpdater_write_crs(t.ds, t.store, t.ds.crs[1])
                  ELSE CallOk(t.ds, t.store), LAMBDA c :
             CallOk(RasterUpdater_opened(c.ds, c.store), c.store)))

\* RasterUpdater.start in mode 'a'; h is the handle GDALOpen gives
RasterUpdater_start_a(d, f, h) ==
    LET d1 == [d EXCEPT !.hds = h]
    IN  CallOk(RasterUpdater_opened(d1, f), f)

\* RasterUpdater.start
RasterUpdater_start(d, a, f, h) ==
    IF d.mode = "w" THEN RasterUpdater_start_w(d, a, f, h)
    ELSE RasterUpdater_start_a(d, f, h)

\* RasterUpdater.get_crs
RasterUpdater_get_crs(d, f) ==
    IF ~CrsTruthy(d.crs)
    THEN Then(RasterReader_read_crs(d, f), LAMBDA r :
            Ret([d EXCEPT !.crs = Some(r.val)], Some(r.val)))
    ELSE Ret(d, d.crs)

\* RasterUpdater.get_transform
RasterUpdater_get_transform(d, f) ==
    IF ~Truthy(d.transform)
    THEN Then(RasterReader_read_transform(d, f), LAMBDA r :
            Ret([d EXCEPT !.transform = Some(r.val)], Some(r.val)))
    ELSE Ret(d, d.transform)


----------------------------------------------------------------------------
(* The dataset instance and its callers. *)

ReadClasses == {"DatasetBase", "RasterReader"}

ArgsAppend == [NoArgs EXCEPT !.mode = "a"]

ArgsPlain ==
    [mode |-> "w", driver |-> "GTiff", width |-> 2, height |-> 1, count |-> 1,
     crs |-> None, transform |-> None, nodata |-> None, dtype |-> <<"np", 1>>]

ArgsFull ==
    [mode |-> "w", driver |-> "GTiff", width |-> 1, height |-> 2, count |-> 2,
     crs |-> Some(Dict(<< <<<<"p">>, <<"str", <<"l">>>>>>, <<<<"n">>, <<"bool", TRUE>>>> >>)),
     transform |-> Some(<<1, 1, 0, 1, 0, -1>>), nodata |-> Some(0),
     dtype |-> <<"key", 6>>]

ArgsPng == [ArgsPlain EXCEPT !.driver = "PNG"]

ArgsBadNp == [ArgsPlain EXCEPT !.dtype = <<"np", 0>>]

ArgsBadKey == [ArgsPlain EXCEPT !.dtype = <<"key", 0>>]

UpdaterArgs == {ArgsAppend, ArgsPlain, ArgsFull, ArgsPng, ArgsBadNp, ArgsBadKey}

Accessors == {"count", "dtypes", "block_shapes", "nodatavals", "crs", "transform", "crs_wkt"}

\* What the last start() or property read returned or raised.  For a
\* start(), native tells whether the native open or create call was made
\* and what it gave ("handle", "failed" or "not called"), and reopen
\* whether the start() directly followed a close() or __exit__.
NoResult ==
    [op |-> "none", ok |-> TRUE, err |-> "", val |-> None,
     native |-> "", reopen |-> FALSE]

\* The pixels of a file: cell <<band, row, col>> (band from 1, row and col
\* from 0) holds a value; the cells beyond the file's bands and extent are
\* not part of it.
Cells == {<<b, r, c>> : b \in 1..2, r \in 0..1, c \in 0..1}

NoPixels == [cell \in Cells |-> 0]

\* No read_band or write_band call yet.  Of a call: the band index, the
\* window (None when absent), the array passed (out or src, None when
\* absent), whether it returned, the exception, the array returned, and
\* whether GDALRasterIO moved pixels.
NoIo ==
    [op |-> "none", bidx |-> 0, window |-> None, arg |-> None,
     ok |-> TRUE, err |-> "", val |-> None, moved |-> FALSE]

\* The coordinate functions not called: the identity transform.  Of a
\* call: the affine <<a, b, c, d, e, f>> and the raster's height and width,
\* the row and col given to ul, the <<x, y>> it returned and the
\* <<row, col>> index gave for them; the box <<left, bottom, right, top>>
\* given to get_window, the window it returned and the window_bounds
\* <<x_min, y_min, x_max, y_max>> of that window.
NoGeo ==
    [op |-> "off", affine |-> <<1, 0, 0, 0, 1, 0>>, height |-> 0, width |-> 0,
     row |-> 0, col |-> 0, xy |-> <<0, 0>>, index |-> <<0, 0>>,
     box |-> <<0, 0, 0, 0>>, window |-> <<<<0, 0>>, <<0, 0>>>>,
     bounds |-> <<0, 0, 0, 0>>]

\* No PROJ text has been built or parsed: crs is the items of a mapping,
\* by the function that serializes it, text the PROJ text and back what
\* the parameter loop of read_crs made of the text
NoPrj == [op |-> "off", crs |-> <<>>, by |-> "", text |-> <<>>, back |-> <<>>]

\* No generator: the fields are the locals of block_windows (its state is
\* "new" before the first next(), then "running", "done" or "failed")
NoGen ==
    [state |-> "none", bidx |-> 0, h |-> 0, w |-> 0, nrows |-> 0, ncols |-> 0,
     j |-> 0, i |-> 0, rows |-> <<0, 0>>, err |-> ""]

NewInstance(c, a) ==
    CASE c = "DatasetBase" -> DatasetBase_init
      [] c = "RasterReader" -> RasterReader_init
      [] OTHER -> RasterUpdater_init(a)

\* A new instance of class c made with the arguments a, and a file that
\* some program has or has not put at its path
InitOf(c, a) ==
    /\ cls = c
    /\ args = a
    /\ ds = NewInstance(cls, args)
    /\ store \in Files \cup {NoFile}
    /\ nextH = 1
    /\ closes = [h \in 1..MaxOpens |-> 0]
    /\ flushes = 0
    /\ disposed = FALSE
    /\ lastOp = "none"
    /\ again = FALSE
    /\ res = NoResult
    /\ bsRead = FALSE
    /\ win = <<<<None, None>>, <<None, None>>>>
    /\ dims = <<0, 0>>
    /\ wres = NoWres
    /\ wop = "off"
    /\ gen = NoGen
    /\ yielded = <<>>
    /\ pixels = NoPixels
    /\ io = NoIo
    /\ geo = NoGeo
    /\ prj = NoPrj

\* A dataset opened for reading: DatasetBase or RasterReader
Init == \E c \in ReadClasses : InitOf(c, NoArgs)

\* A dataset opened for writing: RasterUpdater
InitUpd == \E a \in UpdaterArgs : InitOf("RasterUpdater", a)

\* The native calls a stop, close or teardown makes
Native(call) ==
    /\ closes' = IF call.close # 0 THEN [closes EXCEPT ![call.close] = @ + 1] ELSE closes
    /\ flushes' = IF call.flush # 0 THEN flushes + 1 ELSE flushes

Ran(op) ==
    /\ lastOp' = op
    /\ again' = (op \in {"stop", "close"} /\ lastOp = op)

\* What a start() that leaves the file f as it is gave
WithStore(r, f) == [ok |-> r.ok, err |-> r.err, val |-> r.val, ds |-> r.ds, store |-> f]

\* start() of class c on the instance d made with the arguments a, the
\* native open or create giving h
StartIn(c, d, a, f, h) ==
    CASE c = "DatasetBase" -> WithStore(DatasetBase_start(d, f, h), f)
      [] c = "RasterReader" -> WithStore(RasterReader_start(d, f, h), f)
      [] OTHER -> RasterUpdater_start(d, a, f, h)

StartOf(h) == StartIn(cls, ds, args, store, h)

\* Whether start() gets as far as the native open or create call: in mode
\* 'w' the driver and dtype checks come first
StartCallsNative ==
    \/ cls # "RasterUpdater"
    \/ ds.mode # "w"
    \/ (ds.driver = Some("GTiff") /\ args.dtype[2] # 0)

\* start(): the native open or create call produces a handle or fails; a
\* file that does not exist cannot be opened
Start ==
    /\ ~disposed
    /\ nextH <= MaxOpens
    /\ \E native \in BOOLEAN :
       \E h \in {IF native /\ (store.exists \/ ds.mode = "w") THEN nextH ELSE 0} :
       \E r \in {StartOf(h)} :
              /\ ds' = r.ds
              /\ store' = r.store
              /\ nextH' = IF h # 0 /\ r.ds.hds = h THEN nextH + 1 ELSE nextH
              /\ res' = [op |-> "start", ok |-> r.ok, err |-> r.err, val |-> r.val,
                         native |-> IF ~StartCallsNative THEN "not called"
                                    ELSE IF h # 0 THEN "handle" ELSE "failed",
                         reopen |-> lastOp = "close"]
    /\ Ran("start")
    /\ UNCHANGED <<cls, args, closes, flushes, disposed, bsRead>>
    /\ UNCHANGED notds

StopOf == IF cls = "DatasetBase" THEN DatasetBase_stop(ds) ELSE RasterReader_stop(ds)

CloseOf == IF cls = "DatasetBase" THEN DatasetBase_close(ds) ELSE RasterReader_close(ds)

ExitOf == IF cls = "DatasetBase" THEN DatasetBase_exit(ds) ELSE RasterReader_exit(ds)

DeallocOf == IF cls = "DatasetBase" THEN DatasetBase_dealloc(ds) ELSE RasterReader_dealloc(ds)

Finish(op, call) ==
    /\ ds' = call.ds
    /\ Native(call)
    /\ Ran(op)
    /\ UNCHANGED <<cls, args, store, nextH, res, bsRead>>
    /\ UNCHANGED notds

\* stop()
Stop ==
    /\ ~disposed
    /\ Finish("stop", StopOf)
    /\ UNCHANGED disposed

\* close()
Close ==
    /\ ~disposed
    /\ Finish("close", CloseOf)
    /\ UNCHANGED disposed

\* leaving a `with` block: __exit__, which is a call of close()
Exit ==
    /\ ~disposed
    /\ Finish("close", ExitOf)
    /\ UNCHANGED disposed

\* teardown of the instance: __dealloc__
Dealloc ==
    /\ ~disposed
    /\ Finish("dealloc", DeallocOf)
    /\ disposed' = TRUE

\* The property a of class c read on the instance d
AccessIn(c, a, d, f) ==
    IF c = "DatasetBase"
    THEN CASE a = "count" -> DatasetBase_count(d, f)
           [] a = "dtypes" -> DatasetBase_dtypes(d, f)
           [] a = "block_shapes" -> DatasetBase_block_shapes(d, f)
           [] a = "nodatavals" -> DatasetBase_get_nodatavals(d, f)
           [] a = "crs" -> DatasetBase_get_crs(d, f)
           [] OTHER -> DatasetBase_get_transform(d, f)
    ELSE CASE a = "count" -> RasterReader_count(d, f)
           [] a = "dtypes" -> RasterReader_dtypes(d, f)
           [] a = "block_shapes" -> RasterReader_block_shapes(d, f)
           [] a = "nodatavals" -> RasterReader_nodatavals(d, f)
           [] a = "crs" -> IF c = "RasterReader" THEN RasterReader_get_crs(d, f)
                           ELSE RasterUpdater_get_crs(d, f)
           [] a = "crs_wkt" -> RasterReader_get_crs_wkt(d, f)
           [] OTHER -> IF c = "RasterReader" THEN RasterReader_get_transform(d, f)
                       ELSE RasterUpdater_get_transform(d, f)

AccessOf(a) == AccessIn(cls, a, ds, store)

\* Reading the property a
Access(a) ==
    /\ ~disposed
    /\ a = "crs_wkt" => cls # "DatasetBase"
    /\ Ran(a)
    /\ \E r \in {AccessOf(a)} :
           /\ ds' = r.ds
           /\ res' = [op |-> a, ok |-> r.ok, err |-> r.err, val |-> r.val,
                      native |-> "", reopen |-> FALSE]
    /\ bsRead' = (bsRead \/ a = "block_shapes")
    /\ UNCHANGED <<cls, args, store, nextH, closes, flushes, disposed>>
    /\ UNCHANGED notds

Count == Access("count")

Dtypes == Access("dtypes")

BlockShapes == Access("block_shapes")

Nodatavals == Access("nodatavals")

Crs == Access("crs")

Transform == Access("transform")

CrsWkt == Access("crs_wkt")

\* read_crs() called on the instance
ReadCrsOf ==
    IF cls = "DatasetBase" THEN DatasetBase_read_crs(ds, store)
    ELSE RasterReader_read_crs(ds, store)

ReadCrs ==
    /\ ~disposed
    /\ Ran("read_crs")
    /\ \E r \in {ReadCrsOf} :
           res' = [op |-> "read_crs", ok |-> r.ok, err |-> r.err, val |-> r.val,
                   native |-> "", reopen |-> FALSE]
    /\ bsRead' = bsRead
    /\ UNCHANGED <<cls, args, ds, store, nextH, closes, flushes, disposed>>
    /\ UNCHANGED notds

\* Another program replaces or removes the file while the instance holds no
\* handle on it (and may still be started)
ReplaceFile ==
    /\ ~disposed
    /\ ds.hds = 0
    /\ nextH <= MaxOpens
    /\ store' \in (Files \cup {NoFile}) \ {store}
    /\ UNCHANGED <<cls, args, ds, nextH, closes, flushes, disposed,
                   lastOp, again, res, bsRead>>
    /\ UNCHANGED notds

----------------------------------------------------------------------------
(* block_windows, a generator: the call makes it and runs none of its code, *)
(* and each next() runs it up to its next yield.                            *)

\* A block extent that is not cut off at the end of the axis
block_extent_unclipped(k, b, n) == <<k * b, k * b + b>>

\* `d, m = divmod(n, b); d + int(m > 0)`: the number of blocks of size b
\* along an axis of length n
block_count(n, b) == (n \div b) + (IF n % b > 0 THEN 1 ELSE 0)

\* `row = j * h; height = min(h, self.height - row)`: the bounds
\* (row, row + height) of block k along an axis of length n
block_extent(k, b, n) == <<k * b, k * b + Min(b, n - k * b)>>

\* seq[i] of Python for a 0-based index i, negative ones counting from the end
PyIndex(seq, i) ==
    LET k == IF i < 0 THEN i + Len(seq) ELSE i
    IN  IF 0 <= k /\ k < Len(seq) THEN WinOk(seq[k + 1]) ELSE WinErr("IndexError")

AmbiguousErr ==
    "ValueError: A band index must be provided when band block shapes are inhomogeneous"

\* The block shape block_windows(bidx) of class c works with.  DatasetBase
\* takes an index below 1 as no index; RasterReader indexes with bdix - 1
\* whatever it is.
block_shape_of(c, shapes, bidx) ==
    IF c = "DatasetBase"
    THEN IF bidx < 1
         THEN IF Cardinality({shapes[k] : k \in 1..Len(shapes)}) > 1
              THEN WinErr(AmbiguousErr)
              ELSE PyIndex(shapes, 0)
         ELSE PyIndex(shapes, bidx - 1)
    ELSE PyIndex(shapes, bidx - 1)

\* The generator after it raised e
GenFailed(g, e) == [g EXCEPT !.state = "failed", !.err = e]

\* The generator at its yield for block (j, i); rows are the row bounds
\* computed when row j began
GenAt(g, j, i, rows) == [g EXCEPT !.state = "running", !.j = j, !.i = i, !.rows = rows]

\* The item yielded for block (g.j, g.i): the width is read at each item
GenItem(g, d) == <<<<g.j, g.i>>, <<g.rows, block_extent(g.i, g.w, d.width[1])>>>>

\* The first next(): the code from the top of block_windows to its first
\* yield.  shapes is what self.block_shapes gave: None or <<list>>.
GenStart(c, g, d, shapes) ==
    IF shapes = None THEN GenFailed(g, "TypeError")
    ELSE \* h, w = block_shapes[bidx - 1]
         LET s == block_shape_of(c, shapes[1], g.bidx)
         IN  IF ~s.ok THEN GenFailed(g, s.err)
             ELSE IF d.height = None \/ d.width = None THEN GenFailed(g, "TypeError")
             ELSE LET g1 == [g EXCEPT !.h = s.val[1], !.w = s.val[2],
                                      !.nrows = block_count(d.height[1], s.val[1]),
                                      !.ncols = block_count(d.width[1], s.val[2])]
                  IN  IF g1.nrows > 0 /\ g1.ncols > 0
                      THEN GenAt(g1, 0, 0, block_extent(0, g1.h, d.height[1]))
                      ELSE [g1 EXCEPT !.state = "done"]

\* A generator that runs down the rows of a column before the next column
GenStep_rows_first(g, d) ==
    IF g.j + 1 < g.nrows
    THEN GenAt(g, g.j + 1, g.i, block_extent(g.j + 1, g.h, d.height[1]))
    ELSE IF g.i + 1 < g.ncols
    THEN GenAt(g, 0, g.i + 1, block_extent(0, g.h, d.height[1]))
    ELSE [g EXCEPT !.state = "done"]

\* A later next(): on to the next column, or to the first column of the
\* next row, or to the end
GenStep(g, d) ==
    IF g.i + 1 < g.ncols THEN GenAt(g, g.j, g.i + 1, g.rows)
    ELSE IF g.j + 1 < g.nrows
    THEN GenAt(g, g.j + 1, 0, block_extent(g.j + 1, g.h, d.height[1]))
    ELSE [g EXCEPT !.state = "done"]

\* The band indexes block_windows is called with; 0 stands for no index
BandIndexes == (0 - 1) .. 3

\* self.block_shapes as block_windows gets it, None or <<list>>: the
\* property of DatasetBase returns the list, that of RasterReader the
\* field, which a RasterUpdater leaves None
ShapesRead(r) == IF cls = "DatasetBase" THEN Some(r.val) ELSE r.val

\* block_windows(bidx): a fresh generator
BlockWindowsCall ==
    /\ ~disposed
    /\ \E bidx \in BandIndexes : gen' = [NoGen EXCEPT !.state = "new", !.bidx = bidx]
    /\ yielded' = <<>>
    /\ UNCHANGED dsvars
    /\ UNCHANGED <<winvars, iovars, geovars, prjvars>>

\* next() on the generator
BlockWindowsNext ==
    /\ ~disposed
    /\ gen.state \in {"new", "running"}
    /\ IF gen.state = "new"
       THEN \E r \in {AccessOf("block_shapes")} :
               /\ ds' = r.ds
               /\ gen' = IF ~r.ok THEN GenFailed(gen, r.err)
                         ELSE GenStart(cls, gen, r.ds, ShapesRead(r))
       ELSE /\ ds' = ds
            /\ gen' = GenStep(gen, ds)
    /\ yielded' = IF gen'.state = "running" THEN Append(yielded, GenItem(gen', ds'))
                  ELSE yielded
    /\ bsRead' = (bsRead \/ gen.state = "new")
    /\ UNCHANGED <<cls, args, store, nextH, closes, flushes, disposed,
                   lastOp, again, res>>
    /\ UNCHANGED <<winvars, iovars, geovars, prjvars>>

----------------------------------------------------------------------------
(* read_band and write_band.  An array is its dtype (as the GDAL type code  *)
(* it maps to), its shape and its rows of values.                           *)

Array(dtype, shape, Value(_, _)) ==
    [dtype |-> dtype, rows |-> shape[1], cols |-> shape[2],
     data |-> [r \in 1..shape[1] |-> [c \in 1..shape[2] |-> Value(r, c)]]]

\* np.zeros(shape, dtype)
Zeros(dtype, shape) == Array(dtype, shape, LAMBDA r, c : 0)

\* An array of a caller: a checkerboard of 1 and 2
Filled(dtype, shape) == Array(dtype, shape, LAMBDA r, c : 1 + ((r + c) % 2))

BandIndexErr == "IndexError: band index out of range"

OutDtypeErr == "ValueError: band and output array dtypes do not match"

SrcDtypeErr == "ValueError: band and srcput array dtypes do not match"

\* What a call that got as far as GDALRasterIO gave: v is the array read
\* into (None for a write), px the pixels afterwards, moved whether the
\* engine transferred anything.  A call that raises is Raise(d, e): no
\* statement after the transfer can raise.
IoRet(d, v, px, moved) ==
    [ok |-> TRUE, err |-> "", val |-> v, ds |-> d, px |-> px, moved |-> moved]

\* io_ubyte ... io_float64: GDALRasterIO on band bidx of the file in mode 0
\* (read) or 1 (write) for the window w = <<xoff, yoff, width, height>> and
\* the buffer.  `&buffer[0, 0]` is bounds-checked, so an empty buffer
\* raises.  The engine refuses a window that is empty or not within the
\* raster and transfers nothing; otherwise pixel (r, c) of the buffer
\* corresponds to the pixel of the window at the same relative position.
raster_io(d, f, px, bidx, mode, w, buffer) ==
    LET inside == /\ w[1] >= 0 /\ w[2] >= 0 /\ w[3] >= 1 /\ w[4] >= 1
                  /\ w[1] + w[3] <= f.width /\ w[2] + w[4] <= f.height
        RowOf(r) == w[2] + (((r - 1) * w[4]) \div buffer.rows)
        ColOf(c) == w[1] + (((c - 1) * w[3]) \div buffer.cols)
    IN  IF buffer.rows = 0 \/ buffer.cols = 0 THEN Raise(d, "IndexError")
        ELSE IF ~inside THEN IoRet(d, IF mode = 0 THEN Some(buffer) ELSE None, px, FALSE)
        ELSE IF mode = 0
        THEN IoRet(d, Some([buffer EXCEPT !.data =
                              [r \in 1..buffer.rows |-> [c \in 1..buffer.cols |->
                                  px[<<bidx, RowOf(r), ColOf(c)>>]]]]), px, TRUE)
        ELSE IoRet(d, None,
                   [cell \in DOMAIN px |->
                      IF /\ cell[1] = bidx
                         /\ w[2] <= cell[2] /\ cell[2] < w[2] + w[4]
                         /\ w[1] <= cell[3] /\ cell[3] < w[1] + w[3]
                      THEN buffer.data[1 + (((cell[2] - w[2]) * buffer.rows) \div w[4])]
                                      [1 + (((cell[3] - w[1]) * buffer.cols) \div w[3])]
                      ELSE px[cell]],
                   TRUE)

\* self.dtypes[i] for i = self.indexes.index(bidx)
BandDtype(d, f, bidx) ==
    Then(RasterReader_dtypes(d, f), LAMBDA t :
        IF bidx <= Len(t.val) THEN Ret(t.ds, t.val[bidx]) ELSE Raise(t.ds, "IndexError"))

\* The array read_band reads into: out, or for want of one
\* np.zeros(window and window_shape(window, height, width) or self.shape)
OutArray(d, out, window, dtype) ==
    IF out # None THEN Ret(d, out[1])
    ELSE IF window # None
    THEN LET s == window_shape(window[1], d.height[1], d.width[1])
         IN  IF s.ok THEN Ret(d, Zeros(dtype, s.val)) ELSE Raise(d, s.err)
    ELSE Ret(d, Zeros(dtype, <<d.height[1], d.width[1]>>))

\* <<xoff, yoff, width, height>> of the transfer: of the evaluated window,
\* or of the whole raster
IoWindow(d, window) ==
    IF window # None
    THEN LET e == eval_window(window[1], d.height[1], d.width[1])
         IN  IF e.ok
             THEN Ret(d, <<e.val[2][1], e.val[1][1],
                           e.val[2][2] - e.val[2][1], e.val[1][2] - e.val[1][1]>>)
             ELSE Raise(d, e.err)
    ELSE Ret(d, <<0, 0, d.width[1], d.height[1]>>)

\* The dispatch on the dtype: the seven types with an io_ function
IoDispatch(d, f, px, bidx, mode, w, buffer, dtype) ==
    IF dtype \in 1..7 THEN raster_io(d, f, px, bidx, mode, w, buffer)
    ELSE Raise(d, "ValueError: Invalid dtype")

\* A read_band that leaves the band index to the engine, which gives a
\* NULL band for an index it does not know
read_band_unchecked(d, f, px, bidx, out, window) ==
    IF d.hds = 0 THEN Raise(d, ClosedErr)
    ELSE IF bidx < 1 \/ bidx > f.count THEN Raise(d, NullBandErr)
    ELSE Then(BandDtype(d, f, bidx), LAMBDA t :
         Then(OutArray(t.ds, out, window, t.val), LAMBDA o :
         Then(IoWindow(o.ds, window), LAMBDA w :
         IoDispatch(w.ds, f, px, bidx, 0, w.val, o.val, t.val))))

\* RasterReader.read_band(bidx, out, window): out and window are None or
\* <<value>>
read_band(d, f, px, bidx, out, window) ==
    Then(RasterReader_count(d, f), LAMBDA n :
    IF bidx < 1 \/ bidx > n.val THEN Raise(n.ds, BandIndexErr)
    ELSE IF n.ds.hds = 0 THEN Raise(n.ds, ClosedErr)
    ELSE Then(IF out # None THEN BandDtype(n.ds, f, bidx) ELSE Ret(n.ds, 0), LAMBDA k :
         IF out # None /\ out[1].dtype # k.val THEN Raise(k.ds, OutDtypeErr)
         ELSE IF bidx > f.count THEN Raise(k.ds, NullBandErr)
         ELSE Then(BandDtype(k.ds, f, bidx), LAMBDA t :
              Then(OutArray(t.ds, out, window, t.val), LAMBDA o :
              Then(IoWindow(o.ds, window), LAMBDA w :
              IoDispatch(w.ds, f, px, bidx, 0, w.val, o.val, t.val))))))

\* RasterUpdater.write_band(bidx, src, window): src is an array, window is
\* None or <<value>>
write_band(d, f, px, bidx, src, window) ==
    Then(RasterReader_count(d, f), LAMBDA n :
    IF bidx < 1 \/ bidx > n.val THEN Raise(n.ds, BandIndexErr)
    ELSE IF n.ds.hds = 0 THEN Raise(n.ds, ClosedErr)
    ELSE Then(BandDtype(n.ds, f, bidx), LAMBDA k :
         IF src.dtype # k.val THEN Raise(k.ds, SrcDtypeErr)
         ELSE IF bidx > f.count THEN Raise(k.ds, NullBandErr)
         ELSE Then(IoWindow(k.ds, window), LAMBDA w :
              Then(BandDtype(w.ds, f, bidx), LAMBDA t :
              IoDispatch(t.ds, f, px, bidx, 1, w.val, src, t.val)))))

\* The windows read_band and write_band are called with: none, one pixel,
\* the last row, an empty window, and a window that reaches beyond a
\* raster of MaxDim rows
IoWindows ==
    {None,
     Some(<<<<Some(0), Some(1)>>, <<Some(0), Some(1)>>>>),
     Some(<<<<Some(-1), None>>, <<None, None>>>>),
     Some(<<<<Some(1), Some(1)>>, <<Some(0), Some(1)>>>>),
     Some(<<<<Some(0), Some(MaxDim + 1)>>, <<Some(0), Some(1)>>>>)}

\* The dtypes of the arrays passed: ubyte and float32
ArrayDtypes == {1, 6}

\* The shape of the arrays passed: that of the window, and where the
\* window has none on this instance, one pixel
ShapeFor(d, window) ==
    IF d.height = None \/ d.width = None THEN <<1, 1>>
    ELSE IF window = None THEN <<d.height[1], d.width[1]>>
    ELSE LET s == window_shape(window[1], d.height[1], d.width[1])
         IN  IF s.ok THEN s.val ELSE <<1, 1>>

\* What a call gave, as kept in io
IoOf(op, bidx, window, arg, r) ==
    [op |-> op, bidx |-> bidx, window |-> window, arg |-> arg,
     ok |-> r.ok, err |-> r.err,
     val |-> IF r.ok THEN r.val ELSE None,
     moved |-> r.ok /\ r.moved]

\* read_band(bidx, out, window), with and without an out array, for a band
\* index and a window of the sets given
ReadBandWith(indexes, windows) ==
    /\ ~disposed
    /\ cls # "DatasetBase"
    /\ \E bidx \in indexes : \E window \in windows :
       \E out \in {None} \cup {Some(Filled(t, ShapeFor(ds, window))) : t \in ArrayDtypes} :
       \E r \in {read_band(ds, store, pixels, bidx, out, window)} :
          /\ ds' = r.ds
          /\ io' = IoOf("read_band", bidx, window, out, r)
    /\ Ran("read_band")
    /\ UNCHANGED <<cls, args, store, nextH, closes, flushes, disposed, res, bsRead, pixels>>
    /\ UNCHANGED <<winvars, genvars, geovars, prjvars>>

\* write_band(bidx, src, window) for a band index and a window of the sets
\* given
WriteBandWith(indexes, windows) ==
    /\ ~disposed
    /\ cls = "RasterUpdater"
    /\ \E bidx \in indexes : \E window \in windows :
       \E src \in {Filled(t, ShapeFor(ds, window)) : t \in ArrayDtypes} :
       \E r \in {write_band(ds, store, pixels, bidx, src, window)} :
          /\ ds' = r.ds
          /\ io' = IoOf("write_band", bidx, window, Some(src), r)
          /\ pixels' = IF r.ok THEN r.px ELSE pixels
    /\ Ran("write_band")
    /\ UNCHANGED <<cls, args, store, nextH, closes, flushes, disposed, res, bsRead>>
    /\ UNCHANGED <<winvars, genvars, geovars, prjvars>>

ReadBand == ReadBandWith(BandIndexes, IoWindows)

WriteBand == WriteBandWith(BandIndexes, IoWindows)

\* read_band(bidx) and read_band(bidx, out) of a whole band
ReadWholeBand == ReadBandWith(1..2, {None})

\* write_band(bidx, src) of a whole band
WriteWholeBand == WriteBandWith(1..2, {None})

----------------------------------------------------------------------------
(* Coordinates and indexes.  A coordinate is a whole number of units, the   *)
(* unit being half of 10^-precision, so that the number 1.0 is One units;   *)
(* a, b, d and e of an affine are in units per pixel.  The arithmetic is    *)
(* exact; the arguments the model passes keep every quotient away from the  *)
(* distance at which rounding of doubles could change its floor or ceiling. *)

\* The default of the precision parameter of get_index and get_window
Precision == 6

One == 2 * (10 ^ Precision)

\* math.floor(n / d) for d # 0
FloorDiv(n, d) == IF d > 0 THEN n \div d ELSE (0 - n) \div (0 - d)

\* op(n / d) for op math.floor or math.ceil
ApplyOp(op, n, d) == IF op = "floor" THEN FloorDiv(n, d) ELSE 0 - FloorDiv(0 - n, d)

\* eps = 10.0**-precision * (1.0 - 2.0*op(0.1)): op(0.1) is 0 for floor and
\* 1 for ceil
Eps(op) == (One \div (10 ^ Precision)) * (1 - 2 * (IF op = "ceil" THEN 1 ELSE 0))

\* get_index(x, y, affine, op, precision) with the default precision:
\* affine[5], affine[4], affine[2], affine[0] of the code are f, e, c, a
get_index(x, y, affine, op) ==
    <<ApplyOp(op, y - Eps(op) - affine[6], affine[5]),
      ApplyOp(op, x + Eps(op) - affine[3], affine[1])>>

\* get_window(left, bottom, right, top, affine)
get_window(left, bottom, right, top, affine) ==
    LET window_start == get_index(left, top, affine, "floor")
        window_stop == get_index(right, bottom, affine, "ceil")
    IN  <<<<window_start[1], window_stop[1]>>, <<window_start[2], window_stop[2]>>>>

\* affine * (col, row)
AffineApply(affine, col, row) ==
    <<affine[1] * col + affine[2] * row + affine[3],
      affine[4] * col + affine[5] * row + affine[6]>>

\* DatasetBase.window_bounds
window_bounds(affine, window) ==
    LET lo == AffineApply(affine, window[2][1], window[1][2])
        hi == AffineApply(affine, window[2][2], window[1][1])
    IN  <<lo[1], lo[2], hi[1], hi[2]>>

\* DatasetBase.ul
ul(affine, height, width, row, col) ==
    <<affine[3] + affine[1] * (IF col < 0 THEN col + width ELSE col),
      affine[6] + affine[5] * (IF row < 0 THEN row + height ELSE row)>>

\* Axis-aligned transforms: pixels of one or two units of length, of
\* either sign, from the origin (10.0, 20.0)
Affines ==
    {<<a, 0, 10 * One, 0, e, 20 * One>> :
        a \in {One, 0 - One, 2 * One}, e \in {0 - One, One, 0 - 2 * One}}

\* Coordinates at, and half of 10^-precision to either side of, the
\* multiples of 1.0 from the origin o
CoordinatesFrom(o) == {o + k * One + off : k \in 0 .. MaxDim, off \in {0 - 1, 0, 1}}

\* index(*ul(row, col)) with the default op and precision
UlIndex ==
    /\ geo.op = "none"
    /\ \E row \in (0 - 1) .. MaxDim : \E col \in (0 - 1) .. MaxDim :
       \E xy \in {ul(geo.affine, geo.height, geo.width, row, col)} :
          geo' = [geo EXCEPT !.op = "ul_index", !.row = row, !.col = col, !.xy = xy,
                             !.index = get_index(xy[1], xy[2], geo.affine, "floor")]
    /\ UNCHANGED <<dsvars, winvars, genvars, iovars, prjvars>>

\* window_bounds(get_window(left, bottom, right, top, affine))
GetWindow ==
    /\ geo.op = "none"
    /\ \E left \in CoordinatesFrom(geo.affine[3]) : \E right \in CoordinatesFrom(geo.affine[3]) :
       \E bottom \in CoordinatesFrom(geo.affine[6]) : \E top \in CoordinatesFrom(geo.affine[6]) :
       \E window \in {get_window(left, bottom, right, top, geo.affine)} :
          /\ left <= right
          /\ bottom <= top
          /\ geo' = [geo EXCEPT !.op = "get_window", !.box = <<left, bottom, right, top>>,
                                !.window = window,
                                !.bounds = window_bounds(geo.affine, window)]
    /\ UNCHANGED <<dsvars, winvars, genvars, iovars, prjvars>>

----------------------------------------------------------------------------
(* CRS mappings and PROJ texts.  A value of a mapping is <<"bool", b>>,    *)
(* <<"int", n>>, <<"float", text>> (a float that is no whole number, as    *)
(* its decimal text) or <<"str", text>>.                                   *)

\* Python truth value of a CRS value
ValueTruthy(v) == v \notin {<<"bool", FALSE>>, <<"int", 0>>, <<"str", <<>>>>}

NoDefs == <<"n", "o", "_", "d", "e", "f", "s">>

WkText == <<"w", "k", "t", "e", "x", "t">>

\* _osr_from_crs: the PROJ text it hands to OSRImportFromProj4 for a mapping
\* without 'init'; the mapping gets 'wktext' first
osr_from_crs_proj(items) ==
    LET crs == DictSet(items, WkText, <<"bool", TRUE>>)
    IN  Join([i \in 1..Len(crs) |->
                IF crs[i][2] = <<"bool", TRUE>>
                   \/ (crs[i][1] \in {NoDefs, WkText} /\ ValueTruthy(crs[i][2]))
                THEN <<"+">> \o crs[i][1]
                ELSE <<"+">> \o crs[i][1] \o <<"=">> \o ValueText(crs[i][2])],
             " ")

\* Keys and values of the mappings serialized
CrsKeys == {<<"p">>, <<"k">>, NoDefs}

CrsValues ==
    {<<"bool", TRUE>>, <<"bool", FALSE>>, <<"int", 0>>, <<"int", 1>>, <<"int", 0 - 2>>,
     <<"float", <<"1", ".", "5">>>>, <<"str", <<"l">>>>, <<"str", <<"1">>>>, <<"str", <<>>>>}

\* Mappings of one or two keys
CrsMappings ==
    {<< <<k, v>> >> : k \in CrsKeys, v \in CrsValues}
    \cup {m \in (CrsKeys \X CrsValues) \X (CrsKeys \X CrsValues) : m[1][1] # m[2][1]}

\* Tokens of a PROJ text: key and value, flags, more than one '=', more
\* than one '+', no '+', empty key or value
ProjTokens ==
    {<<"+", "p", "=", "l">>, <<"+", "k", "=", "1", ".", "0">>, <<"+", "k", "=", "1", ".", "5">>,
     <<"+", "k", "=", "-", "2">>, <<"+", "n">>, <<"n">>, <<"+", "+", "k", "=", "7">>,
     <<"+", "a", "=", "b", "=", "c">>, <<"=", "1">>, <<"+", "k", "=">>, <<"+", "x", "=", ".">>,
     <<"p", "=", "+", "3">>}

\* Texts of one or two tokens, and one with blanks around the token
ProjTexts ==
    ProjTokens \cup {t1 \o <<" ">> \o t2 : t1 \in ProjTokens, t2 \in ProjTokens}
    \cup {<<" ">> \o t \o <<" ", " ">> : t \in ProjTokens}

\* A mapping is serialized by RasterUpdater.write_crs or by _osr_from_crs
ToProj ==
    /\ prj.op = "none"
    /\ \E by \in {"write_crs", "osr_from_crs"} :
          prj' = [prj EXCEPT !.op = "proj", !.by = by,
                             !.text = IF by = "write_crs" THEN RasterUpdater_proj(prj.crs)
                                      ELSE osr_from_crs_proj(prj.crs)]
    /\ UNCHANGED <<dsvars, winvars, genvars, iovars, geovars>>

\* The text serialized is parsed as read_crs parses the engine's export
FromProj ==
    /\ prj.op = "proj"
    /\ prj' = [prj EXCEPT !.op = "parsed", !.back = ParseParams(SplitWs(prj.text), <<>>)]
    /\ UNCHANGED <<dsvars, winvars, genvars, iovars, geovars>>

\* read_crs parses a text that the engine exported
ParseText ==
    /\ prj.op = "none"
    /\ \E text \in ProjTexts :
          prj' = [prj EXCEPT !.op = "read", !.text = text,
                             !.back = ParseParams(SplitWs(text), <<>>)]
    /\ UNCHANGED <<dsvars, winvars, genvars, iovars, geovars>>

Next ==
    \/ Start
    \/ Stop
    \/ Close
    \/ Exit
    \/ Dealloc
    \/ Count
    \/ Dtypes
    \/ BlockShapes
    \/ Nodatavals
    \/ Crs
    \/ Transform
    \/ CrsWkt
    \/ ReplaceFile

Spec == Init /\ [][Next]_vars

SpecUpd == InitUpd /\ [][Next]_vars

\* Creating and opening files with a RasterUpdater, the file at the path
\* being replaced in between
NextCreate ==
    \/ Start
    \/ Close
    \/ ReplaceFile

SpecCreate == InitUpd /\ [][NextCreate]_vars

----------------------------------------------------------------------------
(* The window functions on their own: Init draws the arguments. *)

InitWin ==
    /\ cls = "DatasetBase"
    /\ args = NoArgs
    /\ ds = DatasetBase_init
    /\ store = NoFile
    /\ nextH = 1
    /\ closes = [h \in 1..MaxOpens |-> 0]
    /\ flushes = 0
    /\ disposed = FALSE
    /\ lastOp = "none"
    /\ again = FALSE
    /\ res = NoResult
    /\ bsRead = FALSE
    /\ win \in Windows
    /\ dims \in Dims
    /\ wres = NoWres
    /\ wop = "none"
    /\ gen = NoGen
    /\ yielded = <<>>
    /\ pixels = NoPixels
    /\ io = NoIo
    /\ geo = NoGeo
    /\ prj = NoPrj

NextWin ==
    \/ EvalWindow
    \/ ReEvalWindow
    \/ WindowShape
    \/ CropWindow

SpecWin == InitWin /\ [][NextWin]_vars

----------------------------------------------------------------------------
(* block_windows over rasters of every small size and block shape. *)

\* Block shapes <<rows, cols>> a band may have
BandBlockShapes == (1 .. MaxBlock) \X (1 .. MaxBlock)

\* A file of one band, or of two bands the second of which has 1 x 1
\* blocks, with the height, width and first block shape given
BlockFile(height, width, shape, count) ==
    [FileByte EXCEPT !.count = count, !.width = width, !.height = height,
                     !.dt = [i \in 1..count |-> 1],
                     !.bs = [i \in 1..count |-> IF i = 1 THEN shape ELSE <<1, 1>>],
                     !.nd = [i \in 1..count |-> <<1, 0>>]]

BlockFiles ==
    {BlockFile(hw[1], hw[2], shape, count) :
        hw \in (1 .. MaxDim + 1) \X (1 .. MaxDim + 1), shape \in BandBlockShapes, count \in 1..2}

\* A new DatasetBase or RasterReader on one of these files
InitBlk ==
    /\ cls \in ReadClasses
    /\ args = NoArgs
    /\ ds = NewInstance(cls, args)
    /\ store \in BlockFiles
    /\ nextH = 1
    /\ closes = [h \in 1..MaxOpens |-> 0]
    /\ flushes = 0
    /\ disposed = FALSE
    /\ lastOp = "none"
    /\ again = FALSE
    /\ res = NoResult
    /\ bsRead = FALSE
    /\ win = <<<<None, None>>, <<None, None>>>>
    /\ dims = <<0, 0>>
    /\ wres = NoWres
    /\ wop = "off"
    /\ gen = NoGen
    /\ yielded = <<>>
    /\ pixels = NoPixels
    /\ io = NoIo
    /\ geo = NoGeo
    /\ prj = NoPrj

NextBlk ==
    \/ Start
    \/ BlockWindowsCall
    \/ BlockWindowsNext

SpecBlk == InitBlk /\ [][NextBlk]_vars

----------------------------------------------------------------------------
(* Reading and writing bands: a RasterReader, or a RasterUpdater opened in  *)
(* mode 'a' on the file, which another program may replace while the        *)
(* instance is closed.                                                      *)

InitIo ==
    \/ InitOf("RasterReader", NoArgs)
    \/ InitOf("RasterUpdater", ArgsAppend)

NextIo ==
    \/ Start
    \/ ReadBand
    \/ WriteBand

SpecIo == InitIo /\ [][NextIo]_vars

NextIoReopen ==
    \/ Start
    \/ Close
    \/ ReplaceFile
    \/ ReadWholeBand
    \/ WriteWholeBand

SpecIoReopen == InitIo /\ [][NextIoReopen]_vars

----------------------------------------------------------------------------
(* Reading the CRS of a dataset opened for reading, the files including    *)
(* one of a local coordinate system.                                       *)

InitCrs ==
    /\ cls \in ReadClasses
    /\ args = NoArgs
    /\ ds = NewInstance(cls, args)
    /\ store \in CrsFiles
    /\ nextH = 1
    /\ closes = [h \in 1..MaxOpens |-> 0]
    /\ flushes = 0
    /\ disposed = FALSE
    /\ lastOp = "none"
    /\ again = FALSE
    /\ res = NoResult
    /\ bsRead = FALSE
    /\ win = <<<<None, None>>, <<None, None>>>>
    /\ dims = <<0, 0>>
    /\ wres = NoWres
    /\ wop = "off"
    /\ gen = NoGen
    /\ yielded = <<>>
    /\ pixels = NoPixels
    /\ io = NoIo
    /\ geo = NoGeo
    /\ prj = NoPrj

NextCrs ==
    \/ Start
    \/ Close
    \/ ReadCrs
    \/ Crs
    \/ CrsWkt

SpecCrs == InitCrs /\ [][NextCrs]_vars

----------------------------------------------------------------------------
(* Operations that raise on an open dataset: the accessors that read the   *)
(* bands one by one, read_band, write_band and block_windows, on files of  *)
(* one and two bands.                                                      *)

InitAbort ==
    /\ \/ cls \in ReadClasses /\ args = NoArgs
       \/ cls = "RasterUpdater" /\ args = ArgsAppend
    /\ ds = NewInstance(cls, args)
    /\ store \in AbortFiles
    /\ nextH = 1
    /\ closes = [h \in 1..MaxOpens |-> 0]
    /\ flushes = 0
    /\ disposed = FALSE
    /\ lastOp = "none"
    /\ again = FALSE
    /\ res = NoResult
    /\ bsRead = FALSE
    /\ win = <<<<None, None>>, <<None, None>>>>
    /\ dims = <<0, 0>>
    /\ wres = NoWres
    /\ wop = "off"
    /\ gen = NoGen
    /\ yielded = <<>>
    /\ pixels = NoPixels
    /\ io = NoIo
    /\ geo = NoGeo
    /\ prj = NoPrj

NextAbort ==
    \/ Start
    \/ Dtypes
    \/ BlockShapes
    \/ Nodatavals
    \/ ReadWholeBand
    \/ WriteWholeBand
    \/ BlockWindowsCall
    \/ BlockWindowsNext

SpecAbort == InitAbort /\ [][NextAbort]_vars

----------------------------------------------------------------------------
(* Serializing and parsing CRS mappings on their own: Init draws the       *)
(* mapping.                                                                *)

InitPrj ==
    /\ cls = "DatasetBase"
    /\ args = NoArgs
    /\ ds = DatasetBase_init
    /\ store = NoFile
    /\ nextH = 1
    /\ closes = [h \in 1..MaxOpens |-> 0]
    /\ flushes = 0
    /\ disposed = FALSE
    /\ lastOp = "none"
    /\ again = FALSE
    /\ res = NoResult
    /\ bsRead = FALSE
    /\ win = <<<<None, None>>, <<None, None>>>>
    /\ dims = <<0, 0>>
    /\ wres = NoWres
    /\ wop = "off"
    /\ gen = NoGen
    /\ yielded = <<>>
    /\ pixels = NoPixels
    /\ io = NoIo
    /\ geo = NoGeo
    /\ \E crs \in CrsMappings : prj = [NoPrj EXCEPT !.op = "none", !.crs = crs]

NextPrj ==
    \/ ToProj
    \/ FromProj
    \/ ParseText

SpecPrj == InitPrj /\ [][NextPrj]_vars

----------------------------------------------------------------------------
(* The coordinate functions on their own: Init draws the transform and the *)
(* size of the raster.                                                      *)

InitGeo ==
    /\ cls = "DatasetBase"
    /\ args = NoArgs
    /\ ds = DatasetBase_init
    /\ store = NoFile
    /\ nextH = 1
    /\ closes = [h \in 1..MaxOpens |-> 0]
    /\ flushes = 0
    /\ disposed = FALSE
    /\ lastOp = "none"
    /\ again = FALSE
    /\ res = NoResult
    /\ bsRead = FALSE
    /\ win = <<<<None, None>>, <<None, None>>>>
    /\ dims = <<0, 0>>
    /\ wres = NoWres
    /\ wop = "off"
    /\ gen = NoGen
    /\ yielded = <<>>
    /\ pixels = NoPixels
    /\ io = NoIo
    /\ prj = NoPrj
    /\ \E affine \in Affines : \E height \in 1 .. MaxDim : \E width \in 1 .. MaxDim :
          geo = [NoGeo EXCEPT !.op = "none", !.affine = affine,
                              !.height = height, !.width = width]

NextGeo ==
    \/ UlIndex
    \/ GetWindow

SpecGeo == InitGeo /\ [][NextGeo]_vars


----------------------------------------------------------------------------
(* Properties of the life cycle. *)

ReadAccessors == {"count", "dtypes", "block_shapes", "nodatavals", "crs", "transform"}

\* C1: every native handle that start() acquired is closed exactly once:
\* it is never closed twice, and a handle not closed yet is still the one the
\* live instance holds, so that stop(), close() or teardown will close it.
C1_ReleasedExactlyOnce ==
    \A h \in 1 .. (nextH - 1) :
        /\ closes[h] <= 1
        /\ closes[h] = 0 => (~disposed /\ ds.hds = h)

\* C2: a stop() directly after a stop(), and a close() directly after a
\* close(), makes no native flush or Close call and leaves every field of
\* the instance (handle, closed flag, memoized metadata) as it was.
C2_StopCloseIdempotent ==
    [][ ((lastOp = "stop" /\ Stop) \/ (lastOp = "close" /\ Close))
            => UNCHANGED <<ds, closes, flushes>> ]_vars

\* C2, its case: a handle was acquired and released, and stop() or close()
\* has just run a second time in a row.
C2_Witness ==
    /\ again
    /\ lastOp \in {"stop", "close"}
    /\ nextH > 1
    /\ closes[1] = 1

\* The cache of block_shapes holds nothing: None in DatasetBase and in
\* RasterUpdater, the empty list in RasterReader.
BlockShapesEmpty(d) == d.block_shapes = None \/ d.block_shapes = Some(<<>>)

FreshRead(a) ==
    LET s == StartIn(cls, NewInstance(cls, args), args, store, 1)
    IN  AccessIn(cls, a, s.ds, store)

\* C4: after an open, a close() and a second successful start(), the first read of
\* dtypes, block_shapes, nodatavals, crs or transform gives the value of
\* the backing store as it is at the new open.
C4_ReopenInvalidates ==
    [][ \A a \in ReadAccessors \ {"count"} :
            (lastOp = "start" /\ res.ok /\ res.reopen /\ nextH > 2 /\ Access(a))
                => (res'.ok /\ res'.val = FreshRead(a).val) ]_vars

\* C5: once a read accessor has returned a value, the next read of it with
\* no start() in between, stop() and close() included, succeeds and
\* returns the same value.
C5_MemoStable ==
    [][ \A a \in ReadAccessors :
            (res.op = a /\ res.ok /\ Access(a))
                => (res'.ok /\ res'.val = res.val) ]_vars

\* C6: a read accessor called on an instance that never acquired a handle,
\* and so has nothing memoized, fails.
C6_ClosedAccessFails ==
    (nextH = 1 /\ ds.hds = 0 /\ lastOp \in ReadAccessors) => ~res.ok

\* C7: a start() whose native open or create call gave no handle raises,
\* and leaves the instance closed and without a handle.
C7_FailedOpenRaises ==
    (lastOp = "start" /\ res.native = "failed")
        => (~res.ok /\ ds.closed /\ ds.hds = 0)

----------------------------------------------------------------------------
(* Properties of the window arithmetic. *)

\* C8: eval_window takes an explicit 0 literally: a start of 0 evaluates to
\* start 0 and a stop of 0 to stop 0, on either axis.
C8_ZeroIsLiteral ==
    (wop = "eval_window" /\ wres.ev.ok)
        => \A i \in 1..2 : \A k \in 1..2 :
              win[i][k] = Some(0) => wres.ev.val[i][k] = 0

\* C9: for a height and a width that are not negative, eval_window applied
\* to a window it returned succeeds and returns that window.
C9_Idempotent ==
    (wop = "eval_window2" /\ dims[1] >= 0 /\ dims[2] >= 0)
        => (wres.ev2.ok /\ wres.ev2.val = wres.ev.val)

\* C10: a negative bound v on an axis whose dimension is known evaluates to
\* v + dimension; with the dimension unknown eval_window fails, and it
\* fails for want of a dimension only when a bound of that axis is negative
\* after the defaults are applied (an absent start is 0, an absent stop the
\* dimension, an integer itself).
C10_NegativeBounds ==
    LET Defaulted(b, k, dim) ==
            IF b[k] = None THEN (IF k = 1 THEN 0 ELSE dim) ELSE b[k][1]
        DimErrs == <<"invalid height", "invalid width">>
    IN
    wop = "eval_window"
        => \A i \in 1..2 :
              /\ \A k \in 1..2 :
                    (win[i][k] # None /\ win[i][k][1] < 0)
                        => IF dims[i] >= 0
                           THEN wres.ev.ok => wres.ev.val[i][k] = win[i][k][1] + dims[i]
                           ELSE ~wres.ev.ok
              /\ (~wres.ev.ok /\ wres.ev.err = DimErrs[i])
                    => \E k \in 1..2 : Defaulted(win[i], k, dims[i]) < 0


\* A bound as eval_window resolves it: the default d for an absent or zero
\* bound, and the dimension added to a negative one.
Resolved(x, d, dim) ==
    LET v == PyOr(x, d) IN IF v < 0 THEN v + dim ELSE v

\* Some axis of the window has its resolved stop below its resolved start.
StopBelowStart ==
    \E i \in 1..2 : Resolved(win[i][2], dims[i], dims[i]) < Resolved(win[i][1], 0, dims[i])

Clamped(v, dim) == IF v < 0 THEN 0 ELSE IF v > dim THEN dim ELSE v

\* The window argument holds four integers
FourIntegers == \A i \in 1..2 : \A k \in 1..2 : win[i][k] # None

\* C12: for a window of four integers and a height and width >= 0,
\* crop_window does not raise and each bound of its result is the bound it
\* was given clamped, by itself, into [0, dimension] of its axis;
\* crop_window(((-5, 15), (-3, 20)), 10, 10) is ((0, 10), (0, 10)).
C12_CropClamps ==
    /\ (wop = "crop_window" /\ FourIntegers /\ dims[1] >= 0 /\ dims[2] >= 0)
          => /\ wres.crop.ok
             /\ \A i \in 1..2 : \A k \in 1..2 :
                   /\ wres.crop.val[i][k] = Clamped(win[i][k][1], dims[i])
                   /\ 0 <= wres.crop.val[i][k] /\ wres.crop.val[i][k] <= dims[i]
    /\ crop_window(AsArg(<<<<-5, 15>>, <<-3, 20>>>>), 10, 10)
          = WinOk(<<<<0, 10>>, <<0, 10>>>>)

\* crop_window has clamped a start below 0 and a stop beyond the width
C12_Witness ==
    /\ wop = "crop_window"
    /\ FourIntegers
    /\ dims[1] >= 0 /\ dims[2] >= 0
    /\ win[1][1][1] < 0
    /\ win[2][2][1] > dims[2]
    /\ wres.crop.ok
    /\ wres.crop.val[1][1] = 0
    /\ wres.crop.val[2][2] = dims[2]

----------------------------------------------------------------------------
(* Properties of block_windows. *)

\* The least number of blocks of size b that cover n
CeilDiv(n, b) == (n + b - 1) \div b

\* Whether the window holds the pixel (row, col)
Covers(window, row, col) ==
    /\ window[1][1] <= row /\ row < window[1][2]
    /\ window[2][1] <= col /\ col < window[2][2]

\* C13: the windows a finished block_windows generator has yielded tile
\* the raster exactly once: every pixel lies in exactly one of them, none
\* is empty or reaches past the extent, and there are
\* ceil(height / h) * ceil(width / w) of them.
C13_TilesExactlyOnce ==
    gen.state = "done"
        => /\ \A row \in 0 .. (ds.height[1] - 1) : \A col \in 0 .. (ds.width[1] - 1) :
                 Cardinality({k \in 1..Len(yielded) : Covers(yielded[k][2], row, col)}) = 1
           /\ \A k \in 1..Len(yielded) :
                 /\ 0 <= yielded[k][2][1][1] /\ yielded[k][2][1][1] < yielded[k][2][1][2]
                 /\ yielded[k][2][1][2] <= ds.height[1]
                 /\ 0 <= yielded[k][2][2][1] /\ yielded[k][2][2][1] < yielded[k][2][2][2]
                 /\ yielded[k][2][2][2] <= ds.width[1]
           /\ Len(yielded) = CeilDiv(ds.height[1], gen.h) * CeilDiv(ds.width[1], gen.w)

\* a raster of 3 rows in blocks of 2 rows has been tiled: the last row of
\* blocks is cut off at the extent
C13_Witness ==
    /\ gen.state = "done"
    /\ Len(yielded) >= 2
    /\ ds.height[1] % gen.h # 0
    /\ ds.height[1] > gen.h
    /\ yielded[Len(yielded)][2][1][2] - yielded[Len(yielded)][2][1][1] < gen.h

\* C14: block_windows yields in row-major order.  A call makes a fresh
\* generator that has yielded nothing; the n-th item (from 0) a generator
\* yields is block (n div ncols, n mod ncols), so the indexes increase
\* strictly in lexicographic order with the column running over its whole
\* range before the row advances; the window of block (j, i) starts at
\* (j * h, i * w); and the generator ends at the next() after its
\* nrows * ncols-th item, never yielding more.
C14_RowMajor ==
    [][ /\ BlockWindowsCall => (gen'.state = "new" /\ yielded' = <<>>)
        /\ (BlockWindowsNext /\ gen'.state = "running")
             => LET n == Len(yielded)
                    item == yielded'[n + 1]
                    nrows == CeilDiv(ds'.height[1], gen'.h)
                    ncols == CeilDiv(ds'.width[1], gen'.w)
                IN  /\ Len(yielded') = n + 1
                    /\ SubSeq(yielded', 1, n) = yielded
                    /\ item[1] = <<n \div ncols, n % ncols>>
                    /\ n > 0 =>
                          \/ /\ item[1][1] = yielded[n][1][1]
                             /\ item[1][2] = yielded[n][1][2] + 1
                          \/ /\ item[1][1] = yielded[n][1][1] + 1
                             /\ item[1][2] = 0
                             /\ yielded[n][1][2] = ncols - 1
                    /\ item[2][1][1] = item[1][1] * gen'.h
                    /\ item[2][2][1] = item[1][2] * gen'.w
                    /\ n + 1 <= nrows * ncols
        /\ (BlockWindowsNext /\ gen.state = "running"
               /\ Len(yielded) = CeilDiv(ds.height[1], gen.h) * CeilDiv(ds.width[1], gen.w))
             => (gen'.state = "done" /\ yielded' = yielded)
      ]_vars

\* a generator over two rows and two columns of blocks has ended
C14_Witness ==
    /\ gen.state = "done"
    /\ gen.nrows >= 2
    /\ gen.ncols >= 2
    /\ Len(yielded) = gen.nrows * gen.ncols
    /\ yielded[2][1] = <<0, 1>>
    /\ yielded[gen.ncols + 1][1] = <<1, 0>>

\* The block shapes of the bands of the file
BandShapes(f) == {f.bs[k] : k \in 1..f.count}

\* C15: on an open DatasetBase, block_windows called without a band index
\* fails with the ambiguous-block-shape error exactly when the bands of
\* the file do not all share one block shape, and otherwise does what
\* block_windows(1) does.
C15_AmbiguousExactly ==
    [][ (cls = "DatasetBase" /\ ds.hds # 0 /\ gen.state = "new" /\ gen.bidx = 0
           /\ BlockWindowsNext)
          => /\ (gen'.state = "failed" /\ gen'.err = AmbiguousErr)
                   <=> Cardinality(BandShapes(store)) > 1
             /\ Cardinality(BandShapes(store)) <= 1
                   => \E r \in {AccessOf("block_shapes")} :
                         r.ok /\ gen' = [GenStart(cls, [gen EXCEPT !.bidx = 1], r.ds,
                                                  ShapesRead(r)) EXCEPT !.bidx = 0]
      ]_vars

----------------------------------------------------------------------------
(* Properties of read_band and write_band. *)

\* The last operation was a read_band or write_band on an instance that
\* holds a handle
BandCallOnOpen == lastOp \in {"read_band", "write_band"} /\ ds.hds # 0

C17_DtypeMismatchFails ==
    (BandCallOnOpen /\ 1 <= io.bidx /\ io.bidx <= store.count
       /\ io.arg # None /\ io.arg[1].dtype # store.dt[io.bidx])
        => /\ ~io.ok
           /\ io.err = IF lastOp = "read_band" THEN OutDtypeErr ELSE SrcDtypeErr
           /\ ~io.moved

\* The cells of band bidx that lie in the window as eval_window gives it
\* for the instance, or in the whole band when there is no window
InWindow(cell, bidx, window) ==
    /\ cell[1] = bidx
    /\ window # None
          => LET e == eval_window(window[1], ds.height[1], ds.width[1])
             IN  e.ok /\ Covers(e.val, cell[2], cell[3])

\* C18: a read_band(bidx, window) that directly follows a successful
\* write_band(bidx, src, window) with the same band and window returns an
\* array identical to src, and a write_band changes no pixel outside its
\* window or in another band.
C18_WriteThenRead ==
    [][ /\ (lastOp = "write_band" /\ io.ok /\ lastOp' = "read_band"
               /\ io'.arg = None /\ io'.bidx = io.bidx /\ io'.window = io.window)
             => (io'.ok /\ io'.val = io.arg)
        /\ (lastOp' = "write_band" /\ io'.ok)
             => \A cell \in Cells :
                   ~InWindow(cell, io'.bidx, io'.window) => pixels'[cell] = pixels[cell]
      ]_vars

----------------------------------------------------------------------------
(* Properties of the coordinate functions. *)

\* C19: for an axis-aligned transform with a and e of either sign and
\* integers row and col, index applied to the coordinates ul(row, col)
\* returns is (row, col).
C19_UlIndexRoundTrip ==
    geo.op = "ul_index" => geo.index = <<geo.row, geo.col>>

\* C20: for an axis-aligned transform and a box with left <= right and
\* bottom <= top, the window_bounds of the window get_window returns
\* contain the box: x_min <= left, y_min <= bottom, x_max >= right and
\* y_max >= top.
C20_WindowContainsBox ==
    geo.op = "get_window"
        => /\ geo.bounds[1] <= geo.box[1]
           /\ geo.bounds[2] <= geo.box[2]
           /\ geo.bounds[3] >= geo.box[3]
           /\ geo.bounds[4] >= geo.box[4]


\* The number a value compares as in Python (True == 1, False == 0), None
\* for a text and for a float that is no whole number
NumberIn(v) ==
    CASE v[1] = "bool" -> Some(IF v[2] THEN 1 ELSE 0)
      [] v[1] = "int" -> Some(v[2])
      [] OTHER -> None

\* Python's a == b for two CRS values
ValueEq(a, b) ==
    IF NumberIn(a) # None \/ NumberIn(b) # None THEN NumberIn(a) = NumberIn(b) ELSE a = b

\* Python's a == b for two mappings as sequences of items with distinct keys
SameMapping(a, b) ==
    /\ {a[i][1] : i \in 1..Len(a)} = {b[i][1] : i \in 1..Len(b)}
    /\ \A i \in 1..Len(a) : \A j \in 1..Len(b) :
          a[i][1] = b[j][1] => ValueEq(a[i][2], b[j][2])

\* C21: a CRS mapping serialized to a PROJ text and parsed back is the same
\* mapping.
C21_ProjRoundTrip ==
    prj.op = "parsed" => prj.back[1] = "ok" /\ SameMapping(prj.back[2], prj.crs)

\* Number of '=' in a token
EqCount(t) == Cardinality({i \in 1..Len(t) : t[i] = "="})

\* The part of a token before its first '=', without the '+' it begins with
KeyOf(t) ==
    LET first == IF EqCount(t) = 0 THEN Len(t) + 1
                 ELSE CHOOSE i \in 1..Len(t) : t[i] = "=" /\ \A j \in 1..(i - 1) : t[j] # "="
        plus == CHOOSE n \in 0..(first - 1) :
                    /\ \A j \in 1..n : t[j] = "+"
                    /\ n = first - 1 \/ t[n + 1] # "+"
    IN  SubSeq(t, plus + 1, first - 1)

\* The value a token with at most one '=' stands for
ValueOf(t) ==
    LET text == SubSeq(t, Len(t) - (CHOOSE n \in 0..Len(t) :
                                       /\ \A j \in (Len(t) - n + 1)..Len(t) : t[j] # "="
                                       /\ n = Len(t) \/ t[Len(t) - n] = "=") + 1, Len(t))
    IN  IF EqCount(t) = 0 THEN <<"bool", TRUE>>
        ELSE IF ~IsFloatText(text) THEN <<"str", text>>
        ELSE IF NumberOf(text)[1] = "int" THEN <<"int", NumberOf(text)[2]>>
        ELSE <<"float", text>>

\* C22: parsing a PROJ text fails exactly when a token has more than one
\* '='; otherwise every token gives its key, without leading '+', the value
\* it stands for: True without '=', else the number its value text reads as
\* (an integer when integral), else the text; a later token replaces an
\* earlier one of the same key.
C22_TokensClassified ==
    prj.op = "read" =>
        LET toks == SplitWs(prj.text)
        IN  IF \E i \in 1..Len(toks) : EqCount(toks[i]) > 1
            THEN prj.back = <<"error">>
            ELSE /\ prj.back[1] = "ok"
                 /\ {prj.back[2][j][1] : j \in 1..Len(prj.back[2])}
                        = {KeyOf(toks[i]) : i \in 1..Len(toks)}
                 /\ \A i \in 1..Len(toks) :
                       (\A k \in (i + 1)..Len(toks) : KeyOf(toks[k]) # KeyOf(toks[i]))
                       => \E j \in 1..Len(prj.back[2]) :
                             prj.back[2][j] = <<KeyOf(toks[i]), ValueOf(toks[i])>>

\* A text of a key with an integral number and of a flag has been parsed
C22_Witness ==
    /\ prj.op = "read"
    /\ prj.text = <<"+", "k", "=", "1", ".", "0", " ", "+", "n">>
    /\ prj.back = <<"ok", << <<<<"k">>, <<"int", 1>>>>, <<<<"n">>, <<"bool", TRUE>>>> >> >>

\* C23: read_crs on an open dataset returns the empty CRS exactly when the
\* file's WKT is empty; for a WKT with an EPSG code it returns the EPSG
\* reference alone; it parses the PROJ export only when no code is found.
C23_ReadCrsOrder ==
    (res.op = "read_crs" /\ ds.hds # 0) =>
        /\ store.wkt = "" => res.ok /\ res.val = Dict(<<>>)
        /\ (res.ok /\ res.val = Dict(<<>>)) => store.wkt = ""
        /\ (store.wkt # "" /\ store.epsg # None) =>
              /\ res.ok
              /\ res.val[1] = "dict"
              /\ Len(res.val[2]) = 1
              /\ res.val[2][1][1] = <<"i", "n", "i", "t">>
        /\ (store.wkt # "" /\ store.epsg = None /\ res.ok) =>
              res.val = Dict(ParseParams(SplitWs(store.proj), <<>>)[2])

\* The nodata values the claim expects of the file f: per band, absent when
\* the success flag is false or the value is outside the range of the
\* band's dtype, else the native value
NodataExpected(f) ==
    [i \in 1..f.count |->
        IF f.nd[i][1] # 0 /\ InDtypeRange(f.dt[i], f.nd[i][2]) THEN Some(f.nd[i][2]) ELSE None]

\* The list a nodatavals read returned; RasterReader's holds the native
\* values themselves
NodataRead ==
    IF cls = "DatasetBase" THEN res.val
    ELSE [i \in 1..Len(res.val[1]) |-> Some(res.val[1][i])]

\* C24: nodatavals read on an open dataset gives one entry per band, in
\* band order: the native value, or None when the success flag is false or
\* the value lies outside the range of the band's dtype.
C24_NodataPerBand ==
    (lastOp = "nodatavals" /\ ds.hds # 0 /\ store.exists)
        => (res.ok /\ NodataRead = NodataExpected(store))

\* C25: a start() in mode 'w' raises the unsupported-driver error when the
\* driver cannot create, and the unsupported-dtype error when the dtype has
\* no native type code, in either form of the dtype; in both cases the
\* native create call is not made and the instance has no handle.
C25_CreateValidates ==
    (lastOp = "start" /\ cls = "RasterUpdater" /\ args.mode = "w") =>
        /\ args.driver # "GTiff" =>
              /\ ~res.ok
              /\ res.err = "ValueError: only GTiffs can be opened in 'w' mode"
              /\ res.native = "not called"
              /\ ds.hds = 0
        /\ (args.driver = "GTiff" /\ args.dtype[2] = 0) =>
              /\ ~res.ok
              /\ res.err = "ValueError: Unsupported dtype"
              /\ res.native = "not called"
              /\ ds.hds = 0

\* C28: a start() in mode 'w' that fails the driver or the dtype validation
\* leaves the file at the path as it was.
C28_FailedCreateKeepsFile ==
    [][ (/\ lastOp' = "start"
         /\ cls = "RasterUpdater"
         /\ args.mode = "w"
         /\ (args.driver # "GTiff" \/ args.dtype[2] = 0)
         /\ Start)
        => store' = store ]_vars

\* C28 as the code has it: a start() in mode 'w' that fails the driver check
\* leaves the file at the path as it was, and one that passes the driver
\* check and fails for the dtype has removed the file at the path.
C28_FileRemovedAfterDriverCheck ==
    [][ (/\ lastOp' = "start"
         /\ cls = "RasterUpdater"
         /\ args.mode = "w"
         /\ (args.driver # "GTiff" \/ args.dtype[2] = 0)
         /\ Start)
        => /\ ~res'.ok
           /\ args.driver # "GTiff" => store' = store
           /\ args.driver = "GTiff" => ~store'.exists ]_vars

\* A start() in mode 'w' with a driver that cannot create has failed, and
\* the file that was at the path is still there
C28_Witness ==
    /\ lastOp = "start"
    /\ cls = "RasterUpdater"
    /\ args.mode = "w"
    /\ args.driver # "GTiff"
    /\ ~res.ok
    /\ res.native = "not called"
    /\ store.exists

\* C27: in every state of an instance, closed is true exactly when the
\* instance holds no native handle.
C27_ClosedIffNoHandle == ds.closed <=> ds.hds = 0

\* C29: for a window of four integers and a height and width >= 0, on each
\* axis where the window has start <= stop the window crop_window returns
\* has start <= stop as well.
C29_CropKeepsOrder ==
    (wop = "crop_window" /\ FourIntegers /\ dims[1] >= 0 /\ dims[2] >= 0)
        => /\ wres.crop.ok
           /\ \A i \in 1..2 :
                 win[i][1][1] <= win[i][2][1] => wres.crop.val[i][1] <= wres.crop.val[i][2]

\* crop_window has cropped rows that lie above the raster to a window of no
\* rows, and columns that reach beyond it on both sides to its width
C29_Witness ==
    /\ wop = "crop_window"
    /\ FourIntegers
    /\ dims[1] >= 1 /\ dims[2] >= 1
    /\ win[1][1][1] < win[1][2][1] /\ win[1][2][1] < 0
    /\ win[2][1][1] < 0 /\ win[2][2][1] > dims[2]
    /\ wres.crop.ok
    /\ wres.crop.val[1] = <<0, 0>>
    /\ wres.crop.val[2] = <<0, dims[2]>>

\* Two reads of crs gave the same: both raised, or both returned the same
\* mapping or the same text
SameCrsRead(a, b) ==
    /\ a.ok = b.ok
    /\ a.ok => /\ (a.val = None) = (b.val = None)
               /\ a.val # None => /\ a.val[1][1] = b.val[1][1]
                                  /\ a.val[1][2] = b.val[1][2]

\* C30: a read of crs_wkt on an instance that holds a handle returns the
\* WKT of the backing store, and crs read after it gives what crs read in
\* its place would have given.
C30_CrsWktLeavesCrs ==
    [][ (/\ lastOp' = "crs_wkt"
         /\ ds.hds # 0
         /\ Access("crs_wkt"))
        => /\ res'.ok
           /\ res'.val = Some(store.wkt)
           /\ SameCrsRead(AccessIn(cls, "crs", ds', store), AccessIn(cls, "crs", ds, store)) ]_vars

\* The dtypes, block_shapes and nodatavals that the instance d of class c
\* holds are each unpopulated or the value of the file f, one entry a band
MemoCorrect(c, d, f) ==
    /\ d.dtypes = <<>> \/ d.dtypes = f.dt
    /\ BlockShapesEmpty(d) \/ d.block_shapes = Some(f.bs)
    /\ \/ ~Truthy(d.nodatavals)
       \/ IF c = "DatasetBase"
          THEN d.nodatavals[1] = [i \in 1..f.count |-> NodataOf(f, i)]
          ELSE d.nodatavals[1] = [i \in 1..f.count |-> f.nd[i][2]]

\* The step is a metadata accessor, a read_band, a write_band or a next()
\* of block_windows that raised
OpRaised ==
    \/ lastOp' \in Accessors /\ gen' = gen /\ ~res'.ok
    \/ lastOp' \in {"read_band", "write_band"} /\ ~io'.ok
    \/ gen.state \in {"new", "running"} /\ gen'.state = "failed"

\* C26: when an accessor, read_band, write_band or block_windows raises on
\* an instance that holds a handle, the handle and the closed flag stay as
\* they were, the metadata memoized stays correct for the backing store,
\* and a valid operation that follows (count, and a read of band 1, when
\* there is one, into a new array) succeeds.
C26_FailureAbortsOnlyItself ==
    [][ (ds.hds # 0 /\ OpRaised) =>
            /\ ds'.hds = ds.hds
            /\ ds'.closed = ds.closed
            /\ MemoCorrect(cls, ds, store) => MemoCorrect(cls, ds', store')
            /\ AccessIn(cls, "count", ds', store').ok
            /\ (cls # "DatasetBase" /\ store.count >= 1) =>
                  read_band(ds', store', pixels', 1, None, None).ok ]_vars

====
